---- MODULE Spec2Model ----
(***************************************************************************)
(* A model of the message bus (TransportInterceptor) and of the mock peer  *)
(* built on it (MockMCPHost).  The code is single-threaded and asynchronous*)
(* (async/await): every action below is the code that runs between two     *)
(* suspension points.  A suspended sendRequest is a record of `tasks`, a   *)
(* suspended callTool a record of `tools`.                                 *)
(***************************************************************************)
EXTENDS Integers, Sequences, FiniteSets, TLC

VARIABLES
    requestInterceptors,    \* TransportInterceptor.requestInterceptors
    responseInterceptors,   \* TransportInterceptor.responseInterceptors
    messageHandlers,        \* TransportInterceptor.messageHandlers
    requestMocks,           \* TransportInterceptor.requestMocks (a Map)
    recordedMessages,       \* TransportInterceptor.recordedMessages
    config,                 \* MockMCPHost.config (autoRespond)
    capabilities,           \* MockMCPHost.capabilities: a reference to an object
    objects,                \* the capability objects: what each reference holds
    initialized,            \* MockMCPHost.initialized
    requestIdCounter,       \* MockMCPHost.requestIdCounter
    tasks,                  \* the sendRequest calls made so far, in call order
    tools,                  \* the callTool calls made so far, in call order
    nCalls,                 \* history: calls the test suite has made so far
    nResets,                \* history: bus resets so far (reset() and cleanup())
    nCleanups,              \* history: cleanup() calls so far
    latest,                 \* history: per method, the mockResponse calls since the last reset
    given,                  \* history: the capability set of the last setCapabilities call
    strictMode,             \* ProtocolValidator.strictMode
    validationErrors,       \* ProtocolValidator.validationErrors
    validationWarnings,     \* ProtocolValidator.validationWarnings
    recording,              \* SessionRecorder.recording
    messages,               \* SessionRecorder.messages
    startTime,              \* SessionRecorder.startTime
    now,                    \* the clock Date.now() reads
    metadata,               \* SessionRecorder.metadata
    session,                \* the last session a caller took from the recorder
    cycle,                  \* history: what was recorded since the last start or reset,
                            \* the starts so far and whether anything was recorded before
    player,                 \* SessionPlayer: the session it holds and where its replay is
    returned,               \* what the last validator or recorder call returned or threw
    seen,                   \* history: the results validator calls returned since the last reset
    nSteps                  \* history: validator and recorder calls made so far

vars == << requestInterceptors, responseInterceptors, messageHandlers, requestMocks,
           recordedMessages, capabilities, initialized, requestIdCounter, 
           tasks, tools, nCalls, nResets, nCleanups, latest, config, objects, given,
           strictMode, validationErrors, validationWarnings, recording, messages,
           startTime, now, metadata, session, cycle, player, returned, seen, nSteps >>

\* the peer and its bus
hostVars == << requestInterceptors, responseInterceptors, messageHandlers, requestMocks,
               recordedMessages, capabilities, initialized, requestIdCounter,
               tasks, tools, nCalls, nResets, nCleanups, latest, config, objects, given >>

\* a ProtocolValidator and the SessionRecorder that owns it
validatorVars == << strictMode, validationErrors, validationWarnings >>
recorderVars == << recording, messages, startTime, now, metadata, session, cycle >>
asideVars == << validatorVars, recorderVars, player, returned, seen, nSteps >>

busVars == << requestInterceptors, responseInterceptors, messageHandlers, requestMocks,
              recordedMessages >>

----------------------------------------------------------------------------
(* Bounds of the model *)

MaxCalls == 3         \* calls made on the peer and its bus, every attempt a
                      \* callTool may make counted as one
MaxSteps == 3         \* calls made on a ProtocolValidator
MaxMessages == 2      \* messages in the working log of a SessionRecorder
MaxNow == 2           \* the latest time the clock shows
MaxLog == 3           \* messages in the log expectMessageSequence reads
MaxStarts == 2        \* successful startRecording calls on a SessionRecorder

(* Program constants *)

MethodNotFound == -32601

----------------------------------------------------------------------------
(* Inputs *)

DefaultMethods == {"initialize", "ping", "tools/list", "resources/list", "prompts/list"}
Methods == DefaultMethods \cup {"tools/call", "unknown/method"}

\* the methods the modelled caller sends with a bare sendRequest
SendMethods == {"unknown/method"}
\* the mocks the modelled caller registers: method and what the handler does
\* (answer with a result, answer with an error, never answer)
MockInputs == {<<"initialize", "ok">>, <<"tools/call", "ok">>, <<"tools/call", "err">>,
               <<"tools/call", "hang">>}

\* what a registered hook does with the message it is given
RequestHookKinds == {"tag", "rewrite", "reject"}
ResponseHookKinds == {"tag", "reject"}
MessageHandlerKinds == {"tag"}

\* the objects given to setCapabilities, and the {} of the constructor; the
\* name of an object is also what it holds when it is created
CapabilitySets == {"capsA", "capsB"}
CapabilityRefs == CapabilitySets \cup {"{}"}

\* the `retries` options the modelled caller gives to callTool
RetryOptions == {0, 1}

RewriteMethod == "tools/list"

----------------------------------------------------------------------------
(* Messages *)

NoTrail == << >>

Request(id, method) ==
    [kind |-> "request", id |-> id, method |-> method, ok |-> TRUE, code |-> 0,
     data |-> "", trail |-> NoTrail]

ResultResponse(id, data) ==
    [kind |-> "response", id |-> id, method |-> "", ok |-> TRUE, code |-> 0,
     data |-> data, trail |-> NoTrail]

ErrorResponse(id, code, data) ==
    [kind |-> "response", id |-> id, method |-> "", ok |-> FALSE, code |-> code,
     data |-> data, trail |-> NoTrail]

NoMessage ==
    [kind |-> "none", id |-> 0, method |-> "", ok |-> TRUE, code |-> 0,
     data |-> "", trail |-> NoTrail]

NoHandler == [kind |-> "none", reg |-> 0, ep |-> 0]
DefaultHandler == [kind |-> "default", reg |-> 0, ep |-> 0]


\* A sendRequest call.  pc: where it is suspended ("reqHook", "reqMsg": in a
\* request hook, a generic handler of interceptRequest; "lookup": before
\* shouldMock; "handler": in the mock handler; "respHook", "respMsg": in
\* interceptResponse) or how it ended ("done", "rejected").  method: the
\* argument; req: the request built; ireq: the request interceptRequest
\* returned; resp: the response given to interceptResponse; msg: the message
\* the running loop holds (at "done", the response returned); arr, idx, live:
\* the array the running loop walks, its position, and whether that array is
\* still the bus's; h: the mock handler invoked.
\* History: ran (the hooks of the running loop that have returned), owner (the
\* callTool that made the call, or 0), gen (cleanups before the call), ep
\* (resets before the bus operation in progress).
NoTask ==
    [pc |-> "none", method |-> "", req |-> NoMessage, ireq |-> NoMessage,
     msg |-> NoMessage, arr |-> << >>, live |-> FALSE, idx |-> 0, h |-> NoHandler,
     resp |-> NoMessage, ran |-> << >>, told |-> << >>, owner |-> 0, gen |-> 0,
     ep |-> 0]

----------------------------------------------------------------------------
(* TransportInterceptor *)

\* a bus that kept the latest message only
RecordLatest(log, message) == << message >>

\* a bus that put the newest message first
RecordFirst(log, message) == << message >> \o log

\* recordedMessages.push(message)
Record(log, message) == Append(log, message)

\* a registry that kept the first handler of a method
MockSetIfAbsent(mocks, method, handler) ==
    IF mocks[method].kind = "none" THEN [mocks EXCEPT ![method] = handler] ELSE mocks

\* requestMocks.set(method, handler)
MockSet(mocks, method, handler) == [mocks EXCEPT ![method] = handler]

\* requestMocks.get(request.method)
MockGet(mocks, request) == mocks[request.method]

\* a reset() that left the hook arrays alone
ResetInterceptorsKept(arr) == arr

\* a reset() that put the default auto-responders back
ResetMocksToDefaults(mocks) ==
    [m \in DOMAIN mocks |->
        IF m \in {"initialize", "ping", "tools/list", "resources/list", "prompts/list"}
        THEN [kind |-> "default", reg |-> 0, ep |-> 0]
        ELSE [kind |-> "none", reg |-> 0, ep |-> 0]]

\* the arrays and the map as reset() leaves them
ResetInterceptors(arr) == << >>
ResetMocks(mocks) == [m \in Methods |-> NoHandler]
ResetLog(log) == << >>

\* a hook of the modelled test suite applied to the message it is given:
\* "tag" returns a copy marked with the hook's number (hooks of one array are
\* numbered in registration order), "rewrite"
\* returns the request with another method and another id
ApplyHook(hook, message) ==
    CASE hook.kind = "tag" -> [message EXCEPT !.trail = Append(@, hook.reg)]
      [] hook.kind = "rewrite" ->
            [message EXCEPT !.method = RewriteMethod, !.id = @ + 10]
      [] OTHER -> message

\* a loop that gave every hook the message the call was given
HookInputOriginal(t) == IF t.pc = "reqHook" THEN t.req ELSE t.resp

\* modifiedRequest = await interceptor(modifiedRequest): what the next hook is given
HookInput(t) == t.msg

\* a loop that invoked every hook of the array before awaiting any
FirstStartedAll(arr) == Len(arr)

\* for (const f of arr) { ... await f(m) }: when the loop first suspends it has
\* invoked the first element only
FirstStarted(arr) == 1

\* for (const handler of this.messageHandlers) await handler(modified...):
\* the loop over the generic handlers, entered with message t.msg
BeginHandlers(t, phase, next) ==
    IF messageHandlers # << >>
    THEN [t EXCEPT !.pc = phase, !.arr = messageHandlers, !.live = TRUE,
                   !.idx = FirstStarted(messageHandlers)]
    ELSE [t EXCEPT !.pc = next, !.arr = << >>, !.live = FALSE, !.idx = 0]

\* for (const interceptor of this.requestInterceptors) ...: the loop over the
\* request hooks, the first one invoked at once
BeginRequestHooks(t) ==
    IF requestInterceptors # << >>
    THEN [t EXCEPT !.pc = "reqHook", !.arr = requestInterceptors, !.live = TRUE,
                   !.idx = FirstStarted(requestInterceptors)]
    ELSE BeginHandlers(t, "reqMsg", "lookup")

BeginResponseHooks(t) ==
    IF responseInterceptors # << >>
    THEN [t EXCEPT !.pc = "respHook", !.arr = responseInterceptors, !.live = TRUE,
                   !.idx = FirstStarted(responseInterceptors)]
    ELSE BeginHandlers(t, "respMsg", "done")

\* interceptRequest up to its first await
InterceptRequest(t, request) ==
    BeginRequestHooks([t EXCEPT !.req = request, !.msg = request, !.ran = << >>,
                                !.told = << >>,
                                !.ep = nResets])

\* interceptResponse up to its first await
InterceptResponse(t, response) ==
    BeginResponseHooks([t EXCEPT !.resp = response, !.msg = response, !.ran = << >>,
                                 !.told = << >>,
                                 !.ep = nResets])

\* an array iterator reads the array's length at each step: a hook pushed onto
\* the very array a loop is walking is visited by that loop
Pushed(ts, phases, hook) ==
    [i \in DOMAIN ts |->
        IF ts[i].pc \in phases /\ ts[i].live
        THEN [ts[i] EXCEPT !.arr = Append(@, hook)]
        ELSE ts[i]]

\* a reset() that aborted the calls in flight
DetachedAborted(ts) ==
    [i \in DOMAIN ts |->
        IF ts[i].pc \in {"done", "rejected"} THEN ts[i]
        ELSE [ts[i] EXCEPT !.pc = "rejected", !.arr = << >>, !.live = FALSE, !.idx = 0]]

\* reset() assigns new arrays: the loops in flight keep walking the old ones
Detached(ts) == [i \in DOMAIN ts |-> [ts[i] EXCEPT !.live = FALSE]]

----------------------------------------------------------------------------
(* MockMCPHost *)

\* a sendRequest that did not advance the counter
NextRequestIdStale(counter) == counter

\* id: ++this.requestIdCounter
NextRequestId(counter) == counter + 1

\* the result of a default auto-responder (of initialize: capabilities:
\* this.capabilities, the reference the field holds when the handler runs)
DefaultResult(method, caps) ==
    CASE method = "initialize" -> caps
      [] method = "ping" -> "{}"
      [] method = "tools/list" -> "tools: []"
      [] method = "resources/list" -> "resources: []"
      [] OTHER -> "prompts: []"

\* an initialize responder that did not set the flag
InitializedAfterUnset(handler, method, init) == init

\* handlers that assigned the flag instead of setting it
InitializedAfterAssigned(handler, method, init) ==
    handler.kind = "default" /\ method = "initialize"

\* this.initialized after the handler registered under `method` was invoked
InitializedAfter(handler, method, init) ==
    IF handler.kind = "default" /\ method = "initialize" THEN TRUE ELSE init

\* responders that answered every request with the id of the first
HandlerResponseFixedId(handler, request, caps) ==
    [kind |-> "response", id |-> 1, method |-> "", ok |-> handler.kind # "err",
     code |-> IF handler.kind = "err" THEN -32000 ELSE 0,
     data |-> "mocked", trail |-> NoTrail]

\* the response a mock handler produces for the request it is given
HandlerResponse(handler, request, caps) ==
    CASE handler.kind = "default" ->
            ResultResponse(request.id, DefaultResult(request.method, caps))
      [] handler.kind = "err" ->
            ErrorResponse(request.id, -32000, "tool failed")
      [] OTHER -> ResultResponse(request.id, "mocked")

\* a sendRequest that answered an unmocked method with "invalid request"
NotFoundResponseInvalid(intercepted, method) ==
    ErrorResponse(intercepted.id, -32600, "Method not found: " \o method)

\* a sendRequest whose error message named the method it looked up
NotFoundResponseLookedUp(intercepted, method) ==
    ErrorResponse(intercepted.id, MethodNotFound,
                  "Method not found: " \o intercepted.method)

\* errorResponse of sendRequest
NotFoundResponse(intercepted, method) ==
    ErrorResponse(intercepted.id, MethodNotFound, "Method not found: " \o method)

\* the mocks setupAutoResponders installs
AutoResponders == [m \in Methods |-> IF m \in DefaultMethods THEN DefaultHandler ELSE NoHandler]

\* the mocks of a peer constructed with autoRespond: false
NoResponders == [m \in Methods |-> NoHandler]

\* a cleanup() that left the counter alone
CleanupCounterKept == requestIdCounter

\* cleanup(): this.initialized = false; this.requestIdCounter = 0
CleanupInitialized == FALSE
CleanupCounter == 0

----------------------------------------------------------------------------
(* callTool *)

\* A callTool call.  pc: "racing" (an attempt's sendRequest against its timer),
\* "backoff", "returned", "thrown"; child: the sendRequest of the attempt in
\* progress; lastError: the message of the failure caught last; result: the
\* response returned; error: the message of the Error thrown.
\* History: outcomes (how each attempt made so far ended).
NoTool == [pc |-> "none", retries |-> 0, attempt |-> 0, child |-> 0,
           lastError |-> "", result |-> NoMessage, error |-> "",
           outcomes |-> << >>]

\* a catch block that kept the first failure
LastErrorFirst(previous, message) == IF previous = "" THEN message ELSE previous

\* catch (error) { lastError = error as Error; ... }
LastError(previous, message) == message

\* new Error(`Tool call failed after ${retries + 1} attempts: ${lastError?.message}`)
ToolCallFailed(retries, lastError) ==
    "Tool call failed after " \o ToString(retries + 1) \o " attempts: " \o
        (IF lastError = "" THEN "undefined" ELSE lastError)

\* the timer of the race: reject(new Error('Tool call timeout'))
ToolCallTimeout == "Tool call timeout"

\* the callTool frame when the loop is left without a return
Thrown(tl) == [tl EXCEPT !.pc = "thrown", !.error = ToolCallFailed(tl.retries, tl.lastError)]

\* a loop that stopped one attempt early
LoopContinuesShort(attempt, retries) == attempt < retries

\* for (let attempt = 0; attempt <= retries; attempt++)
LoopContinues(attempt, retries) == attempt <= retries

\* if (attempt < retries) await new Promise(... setTimeout ...)
BacksOff(attempt, retries) == attempt < retries

\* a task suspended in code of the test suite (a hook or an asynchronous mock
\* handler), which may take any time; elsewhere only microtasks are pending
InUserCode(t) == t.pc \in {"reqHook", "reqMsg", "handler", "respHook", "respMsg"}

----------------------------------------------------------------------------
(* The state after new MockMCPHost(config) *)

MockMCPHostNew(cfg) ==
    /\ requestInterceptors = << >>
    /\ responseInterceptors = << >>
    /\ messageHandlers = << >>
    /\ config = cfg
    /\ requestMocks = IF config.autoRespond THEN AutoResponders ELSE NoResponders
    /\ recordedMessages = << >>
    /\ capabilities = "{}"
    /\ objects = [r \in CapabilityRefs |-> r]
    /\ given = "none"
    /\ initialized = FALSE
    /\ requestIdCounter = 0
    /\ tasks = << >>
    /\ tools = << >>
    /\ nCalls = 0
    /\ nResets = 0
    /\ nCleanups = 0
    /\ latest = [m \in Methods |-> 0]

\* new ProtocolValidator(strict)
NoReturn == [op |-> "none"]
NothingSeen == [errors |-> << >>, warnings |-> << >>, invalid |-> FALSE]

ProtocolValidatorNew(strict) ==
    /\ strictMode = strict
    /\ validationErrors = << >>
    /\ validationWarnings = << >>
    /\ returned = NoReturn
    /\ seen = NothingSeen
    /\ nSteps = 0

\* new SessionRecorder(metadata), whose validator is new ProtocolValidator(false)
\* the metadata the recorder is constructed with: an object with its required
\* fields, all strings
RecorderMetadata ==
    [t |-> "object", hostName |-> "string", protocolVersion |-> "string",
     recordedDate |-> "string"]

\* no SessionPlayer replays anything
NoPlayer ==
    [pc |-> "idle", entries |-> << >>, validate |-> FALSE, speed |-> 0, index |-> 0,
     child |-> 0, visited |-> << >>, errors |-> << >>, result |-> [returned |-> FALSE]]

\* no session was taken yet
NoSession == [taken |-> FALSE, shared |-> FALSE, messages |-> << >>]

SessionRecorderNew ==
    /\ recording = FALSE
    /\ messages = << >>
    /\ startTime = 0
    /\ now = 0
    /\ metadata = RecorderMetadata
    /\ session = NoSession
    /\ cycle = [entries |-> << >>, starts |-> 0, before |-> FALSE, at |-> 0]

Init ==
    /\ \E cfg \in [autoRespond : BOOLEAN] : MockMCPHostNew(cfg)
    /\ ProtocolValidatorNew(FALSE)
    /\ SessionRecorderNew
    /\ player = NoPlayer

----------------------------------------------------------------------------
(* Calls of the test suite *)


\* sendRequest(method) up to its first await; the new task is tasks'[Len(tasks)+1]
Send(method, owner) ==
    LET id == NextRequestId(requestIdCounter)
        request == Request(id, method)
        t == InterceptRequest([NoTask EXCEPT !.method = method, !.owner = owner,
                                             !.gen = nCleanups], request)
    IN /\ requestIdCounter' = id
       /\ recordedMessages' = Record(recordedMessages, request)
       /\ tasks' = Append(tasks, t)

SendRequest(method) ==
    /\ nCalls < MaxCalls
    /\ Send(method, 0)
    /\ nCalls' = nCalls + 1
    /\ UNCHANGED << requestInterceptors, responseInterceptors, messageHandlers,
                    requestMocks, capabilities, initialized, tools,
                    nResets, nCleanups, latest, config, objects, given, asideVars >>

Initialize == SendRequest("initialize")
ListTools == SendRequest("tools/list")

OnRequest(kind) ==
    /\ nCalls < MaxCalls
    /\ LET hook == [kind |-> kind, reg |-> Len(requestInterceptors) + 1, ep |-> nResets]
       IN /\ requestInterceptors' = Append(requestInterceptors, hook)
          /\ tasks' = Pushed(tasks, {"reqHook"}, hook)
    /\ nCalls' = nCalls + 1
    /\ UNCHANGED << responseInterceptors, messageHandlers, requestMocks,
                    recordedMessages, capabilities, initialized, requestIdCounter,
                    tools, nResets, nCleanups, latest, config, objects, given, asideVars >>

OnResponse(kind) ==
    /\ nCalls < MaxCalls
    /\ LET hook == [kind |-> kind, reg |-> Len(responseInterceptors) + 1, ep |-> nResets]
       IN /\ responseInterceptors' = Append(responseInterceptors, hook)
          /\ tasks' = Pushed(tasks, {"respHook"}, hook)
    /\ nCalls' = nCalls + 1
    /\ UNCHANGED << requestInterceptors, messageHandlers, requestMocks,
                    recordedMessages, capabilities, initialized, requestIdCounter,
                    tools, nResets, nCleanups, latest, config, objects, given, asideVars >>

OnMessage(kind) ==
    /\ nCalls < MaxCalls
    /\ LET hook == [kind |-> kind, reg |-> Len(messageHandlers) + 1, ep |-> nResets]
       IN /\ messageHandlers' = Append(messageHandlers, hook)
          /\ tasks' = Pushed(tasks, {"reqMsg", "respMsg"}, hook)
    /\ nCalls' = nCalls + 1
    /\ UNCHANGED << requestInterceptors, responseInterceptors, requestMocks,
                    recordedMessages, capabilities, initialized, requestIdCounter,
                    tools, nResets, nCleanups, latest, config, objects, given, asideVars >>

MockResponse(method, kind) ==
    /\ nCalls < MaxCalls
    /\ requestMocks' = MockSet(requestMocks, method,
                               [kind |-> kind, reg |-> latest[method] + 1, ep |-> nResets])
    /\ latest' = [latest EXCEPT ![method] = @ + 1]
    /\ nCalls' = nCalls + 1
    /\ UNCHANGED << requestInterceptors, responseInterceptors, messageHandlers,
                    recordedMessages, capabilities, initialized, requestIdCounter,
                    tasks, tools, nResets, nCleanups, config, objects, given, asideVars >>

\* a setCapabilities that copied the new set into the object the peer holds
AssignedInPlace(heap, held, caps) == [heap EXCEPT ![held] = heap[caps]]

\* this.capabilities = capabilities: the field is given the new reference, and
\* no object is written
Assigned(heap, held, caps) == heap

SetCapabilities(caps) ==
    /\ nCalls < MaxCalls
    /\ capabilities # caps         \* the same set again changes nothing
    /\ capabilities' = caps
    /\ objects' = Assigned(objects, capabilities, caps)
    /\ given' = objects[caps]
    /\ nCalls' = nCalls + 1
    /\ UNCHANGED << busVars, initialized, requestIdCounter, tasks, tools,
                    nResets, nCleanups, latest, config, asideVars >>

ClearRecordedMessages ==
    /\ nCalls < MaxCalls
    /\ recordedMessages # << >>    \* on an empty log it changes nothing
    /\ recordedMessages' = << >>
    /\ nCalls' = nCalls + 1
    /\ UNCHANGED << requestInterceptors, responseInterceptors, messageHandlers,
                    requestMocks, capabilities, initialized, requestIdCounter,
                    tasks, tools, nResets, nCleanups, latest, config, objects, given, asideVars >>

\* TransportInterceptor.reset()
BusReset ==
    /\ requestInterceptors' = ResetInterceptors(requestInterceptors)
    /\ responseInterceptors' = ResetInterceptors(responseInterceptors)
    /\ messageHandlers' = ResetInterceptors(messageHandlers)
    /\ requestMocks' = ResetMocks(requestMocks)
    /\ recordedMessages' = ResetLog(recordedMessages)
    /\ tasks' = Detached(tasks)
    /\ nResets' = nResets + 1
    /\ latest' = [m \in Methods |-> 0]

Reset ==
    /\ nCalls < MaxCalls
    /\ BusReset
    /\ nCalls' = nCalls + 1
    /\ UNCHANGED << capabilities, initialized, requestIdCounter, tools,
                    nCleanups, config, objects, given, asideVars >>

Cleanup ==
    /\ nCalls < MaxCalls
    /\ BusReset
    /\ initialized' = CleanupInitialized
    /\ requestIdCounter' = CleanupCounter
    /\ nCleanups' = nCleanups + 1
    /\ nCalls' = nCalls + 1
    /\ UNCHANGED << capabilities, tools, config, objects, given, asideVars >>

----------------------------------------------------------------------------
(* Resumptions of a suspended sendRequest *)

SetTask(i, t) == tasks' = [tasks EXCEPT ![i] = t]

\* a loop that caught the failure of a hook and returned what it had
RejectedSwallowed(t) == [t EXCEPT !.pc = "lookup", !.arr = << >>, !.live = FALSE, !.idx = 0]

\* the promise sendRequest returned is rejected
Rejected(t) == [t EXCEPT !.pc = "rejected", !.arr = << >>, !.live = FALSE, !.idx = 0]

\* the hook a loop is waiting for settles: it rejects, or the loop goes on
AfterHook(t, phase, next) ==
    LET hook == t.arr[t.idx]
        out == [t EXCEPT !.msg = ApplyHook(hook, HookInput(t)), !.ran = Append(@, hook)]
    IN IF hook.kind = "reject" THEN Rejected(t)
       ELSE IF t.idx < Len(t.arr) THEN [out EXCEPT !.idx = @ + 1]
       ELSE IF phase = "reqHook" THEN BeginHandlers(out, "reqMsg", "lookup")
       ELSE BeginHandlers(out, "respMsg", "done")

\* a bus that went on with what the generic handler returned
HandlerOutputApplied(hook, message) == ApplyHook(hook, message)

\* await handler(modifiedRequest): the value of the handler is not assigned,
\* the loop goes on with the message it had
HandlerOutput(hook, message) == message

\* a generic handler settles: its value is dropped
AfterHandler(t, next) ==
    LET hook == t.arr[t.idx]
        out == [t EXCEPT !.msg = HandlerOutput(hook, @),
                         !.told = Append(@, [hook |-> hook, given |-> t.msg])]
    IN IF hook.kind = "reject" THEN Rejected(t)
       ELSE IF t.idx < Len(t.arr) THEN [out EXCEPT !.idx = @ + 1]
       ELSE [out EXCEPT !.pc = next, !.arr = << >>, !.live = FALSE, !.idx = 0]

RequestHookDone(i) ==
    /\ tasks[i].pc = "reqHook"
    /\ SetTask(i, AfterHook(tasks[i], "reqHook", "lookup"))
    /\ UNCHANGED << busVars, capabilities, initialized, requestIdCounter, 
                    tools, nCalls, nResets, nCleanups, latest, config, objects, given, asideVars >>

RequestHandlerDone(i) ==
    /\ tasks[i].pc = "reqMsg"
    /\ SetTask(i, AfterHandler(tasks[i], "lookup"))
    /\ UNCHANGED << busVars, capabilities, initialized, requestIdCounter, 
                    tools, nCalls, nResets, nCleanups, latest, config, objects, given, asideVars >>

\* sendRequest resumes with the intercepted request: shouldMock invokes the mock
\* handler, if any.  A default auto-responder is a synchronous function: its
\* answer reaches interceptResponse after two microtask ticks, with no timer in
\* between, and the action takes them together.  With no mock, the error response
\* and interceptResponse follow.
ShouldMock(i) ==
    LET t == [tasks[i] EXCEPT !.ireq = tasks[i].msg, !.ep = nResets]
        h == MockGet(requestMocks, t.msg)
        answer == HandlerResponse(h, t.msg, capabilities)
        response == NotFoundResponse(t.msg, t.method)
    IN /\ t.pc = "lookup"
       /\ CASE h.kind = "none" ->
                 /\ recordedMessages' = Record(recordedMessages, response)
                 /\ SetTask(i, InterceptResponse(t, response))
                 /\ UNCHANGED initialized
            [] h.kind = "default" ->
                 /\ initialized' = InitializedAfter(h, t.msg.method, initialized)
                 /\ recordedMessages' = Record(recordedMessages, answer)
                 /\ SetTask(i, InterceptResponse([t EXCEPT !.h = h], answer))
            [] OTHER ->
                 /\ initialized' = InitializedAfter(h, t.msg.method, initialized)
                 /\ SetTask(i, [t EXCEPT !.pc = "handler", !.h = h, !.resp = answer])
                 /\ UNCHANGED recordedMessages
       /\ UNCHANGED << requestInterceptors, responseInterceptors, messageHandlers,
                       requestMocks, capabilities, requestIdCounter, 
                       tools, nCalls, nResets, nCleanups, latest, config, objects, given, asideVars >>

\* the mock handler's answer arrives: interceptResponse
MockHandlerDone(i) ==
    LET t == tasks[i]
    IN /\ t.pc = "handler"
       /\ t.h.kind # "hang"
       /\ recordedMessages' = Record(recordedMessages, t.resp)
       /\ SetTask(i, InterceptResponse(t, t.resp))
       /\ UNCHANGED << requestInterceptors, responseInterceptors, messageHandlers,
                       requestMocks, capabilities, initialized, requestIdCounter,
                       tools, nCalls, nResets, nCleanups, latest, config, objects, given, asideVars >>

ResponseHookDone(i) ==
    /\ tasks[i].pc = "respHook"
    /\ SetTask(i, AfterHook(tasks[i], "respHook", "done"))
    /\ UNCHANGED << busVars, capabilities, initialized, requestIdCounter, 
                    tools, nCalls, nResets, nCleanups, latest, config, objects, given, asideVars >>

ResponseHandlerDone(i) ==
    /\ tasks[i].pc = "respMsg"
    /\ SetTask(i, AfterHandler(tasks[i], "done"))
    /\ UNCHANGED << busVars, capabilities, initialized, requestIdCounter, 
                    tools, nCalls, nResets, nCleanups, latest, config, objects, given, asideVars >>

----------------------------------------------------------------------------
(* callTool *)

\* an attempt failed with `message`: catch, then back off or go round the loop
AttemptFailed(c, outcome, message) ==
    LET tl == tools[c]
        failed == [tl EXCEPT !.lastError = LastError(@, message),
                             !.outcomes = Append(@, outcome)]
    IN IF BacksOff(tl.attempt, tl.retries) \/ LoopContinues(tl.attempt + 1, tl.retries)
       THEN [failed EXCEPT !.pc = "backoff"]
       ELSE Thrown([failed EXCEPT !.attempt = @ + 1])

CallTool(retries) ==
    /\ nCalls + retries + 1 <= MaxCalls
    /\ nCalls' = nCalls + retries + 1
    /\ IF LoopContinues(0, retries)
       THEN /\ Send("tools/call", Len(tools) + 1)
            /\ tools' = Append(tools, [NoTool EXCEPT !.pc = "racing", !.retries = retries,
                                                     !.child = Len(tasks) + 1])
       ELSE /\ tools' = Append(tools, Thrown([NoTool EXCEPT !.retries = retries]))
            /\ UNCHANGED << requestIdCounter, recordedMessages, tasks >>
    /\ UNCHANGED << requestInterceptors, responseInterceptors, messageHandlers,
                    requestMocks, capabilities, initialized, 
                    nResets, nCleanups, latest, config, objects, given, asideVars >>

\* a callTool that awaited sendRequest without racing it against a timer
TimerNeverWins(t) == FALSE

\* Promise.race([sendRequest(...), timer]): the timer can win while sendRequest
\* waits for a hook or a handler; continuations alone run before any timer
TimerWins(t) == InUserCode(t)

\* the race is won by sendRequest
ToolSettled(c) ==
    LET tl == tools[c]
        t == tasks[tl.child]
    IN /\ tl.pc = "racing"
       /\ t.pc \in {"done", "rejected"}
       /\ tools' = [tools EXCEPT ![c] =
            IF t.pc = "rejected" THEN AttemptFailed(c, "rejected", "hook failed")
            ELSE IF ~t.msg.ok THEN AttemptFailed(c, "error", t.msg.data)
            ELSE [tl EXCEPT !.pc = "returned", !.result = t.msg,
                            !.outcomes = Append(@, "ok")]]
       /\ UNCHANGED << busVars, capabilities, initialized, requestIdCounter,
                       tasks, nCalls, nResets, nCleanups, latest, config, objects, given, asideVars >>

\* a race whose timer rejected the sendRequest it was racing
AfterTimeoutCancelled(t) == Rejected(t)

\* Promise.race settles with the timer's rejection and does nothing to the
\* promise that lost: the sendRequest stays as it was
AfterTimeout(t) == t

\* the race is won by the timer
ToolTimeout(c) ==
    LET tl == tools[c]
    IN /\ tl.pc = "racing"
       /\ TimerWins(tasks[tl.child])
       /\ tools' = [tools EXCEPT ![c] = AttemptFailed(c, "timeout", ToolCallTimeout)]
       /\ tasks' = [tasks EXCEPT ![tl.child] = AfterTimeout(@)]
       /\ UNCHANGED << busVars, capabilities, initialized, requestIdCounter,
                       nCalls, nResets, nCleanups, latest, config, objects, given, asideVars >>

\* the backoff timer fires: attempt++, the loop test and the next sendRequest
ToolRetry(c) ==
    LET tl == tools[c]
    IN /\ tl.pc = "backoff"
       /\ IF LoopContinues(tl.attempt + 1, tl.retries)
          THEN /\ Send("tools/call", c)
               /\ tools' = [tools EXCEPT ![c] =
                    [tl EXCEPT !.pc = "racing", !.attempt = @ + 1, !.child = Len(tasks) + 1]]
          ELSE /\ tools' = [tools EXCEPT ![c] = Thrown([tl EXCEPT !.attempt = @ + 1])]
               /\ UNCHANGED << requestIdCounter, recordedMessages, tasks >>
       /\ UNCHANGED << requestInterceptors, responseInterceptors, messageHandlers,
                       requestMocks, capabilities, initialized, 
                       nCalls, nResets, nCleanups, latest, config, objects, given, asideVars >>

----------------------------------------------------------------------------

Next ==
    \/ \E m \in SendMethods : SendRequest(m)
    \/ Initialize
    \/ ListTools
    \/ \E r \in RetryOptions : CallTool(r)
    \/ \E k \in RequestHookKinds : OnRequest(k)
    \/ \E k \in ResponseHookKinds : OnResponse(k)
    \/ \E k \in MessageHandlerKinds : OnMessage(k)
    \/ \E mk \in MockInputs : MockResponse(mk[1], mk[2])
    \/ \E c \in CapabilitySets : SetCapabilities(c)
    \/ ClearRecordedMessages
    \/ Reset
    \/ Cleanup
    \/ \E i \in DOMAIN tasks :
          \/ RequestHookDone(i)
          \/ RequestHandlerDone(i)
          \/ ShouldMock(i)
          \/ MockHandlerDone(i)
          \/ ResponseHookDone(i)
          \/ ResponseHandlerDone(i)
    \/ \E c \in DOMAIN tools :
          \/ ToolSettled(c)
          \/ ToolTimeout(c)
          \/ ToolRetry(c)

Spec == Init /\ [][Next]_vars

\* What the event loop guarantees: a timer that was set fires, and a
\* continuation that is ready runs.  Nothing makes a hook or a handler of the
\* test suite settle.
ToolStep(c) == c \in DOMAIN tools /\ (ToolSettled(c) \/ ToolTimeout(c) \/ ToolRetry(c))
LookupStep(i) == i \in DOMAIN tasks /\ ShouldMock(i)

FairSpec ==
    /\ Spec
    /\ \A c \in 1..MaxCalls : WF_vars(ToolStep(c))
    /\ \A i \in 1..MaxCalls : WF_vars(LookupStep(i))

----------------------------------------------------------------------------
(* JavaScript values as the validator sees them.  A field of a message is one
   of these kinds; "absent" is a key the object does not have. *)

Falsy == {"undefined", "null", "false", "zero", "emptyString"}
Truthy == {"true", "number", "string", "object", "array"}
ValueKinds == Falsy \cup Truthy
FieldKinds == ValueKinds \cup {"absent"}

\* typeof v (reading an absent key gives undefined)
TypeOf(v) ==
    CASE v \in {"absent", "undefined"} -> "undefined"
      [] v \in {"null", "object", "array"} -> "object"
      [] v \in {"false", "true"} -> "boolean"
      [] v \in {"zero", "number"} -> "number"
      [] OTHER -> "string"

\* 'key' in obj
HasKey(v) == v # "absent"

\* the value of an `error` field: its kind and, when it is an object, the kinds
\* of its code and message
ErrorValue(kind, code, message) == [t |-> kind, code |-> code, message |-> message]
NoError == ErrorValue("absent", "absent", "absent")

\* A message handed to the validator.  shape: "object", or what it is instead
\* ("null", "string"); jsonrpc: the string in the field, or "absent".
Message(shape, jsonrpc, id, method, params, result, error) ==
    [shape |-> shape, jsonrpc |-> jsonrpc, id |-> id, method |-> method,
     params |-> params, result |-> result, error |-> error]

NotAnObject(message) == message.shape # "object"

ValidationResult(errors, warnings) ==
    [valid |-> Len(errors) = 0, errors |-> errors, warnings |-> warnings]

\* if (cond) errors.push(text)
Push(cond, text) == IF cond THEN << text >> ELSE << >>

\* 'params' in req && req.params !== undefined && req.params !== null
\*    && typeof req.params !== 'object'
ParamsRejected(params) ==
    HasKey(params) /\ params # "undefined" /\ params # "null" /\ TypeOf(params) # "object"

validateRequest(request) ==
    IF NotAnObject(request)
    THEN [valid |-> FALSE, errors |-> << "Request must be an object" >>, warnings |-> << >>]
    ELSE ValidationResult(
           Push(request.jsonrpc # "2.0", "jsonrpc field must be \"2.0\"")
           \o Push(request.method \notin Truthy \/ TypeOf(request.method) # "string",
                   "method field is required and must be a string")
           \o Push(HasKey(request.id) /\ request.id \in {"null", "undefined"},
                   "id field cannot be null or undefined in a request")
           \o Push(ParamsRejected(request.params),
                   "params field must be an object or array if present"),
           Push(~HasKey(request.id),
                "Request missing id field (should be a notification if intentional)"))

\* a check that accepted a response carrying both fields
BothPresentAccepted(hasResult, hasError) == FALSE

\* if (hasResult && hasError)
BothPresent(hasResult, hasError) == hasResult /\ hasError

\* the block under `if (hasError && res.error)`
ErrorStructure(error) ==
    IF HasKey(error.t) /\ error.t \in Truthy
    THEN IF TypeOf(error.t) # "object"
         THEN << "error field must be an object" >>
         ELSE Push(TypeOf(error.code) # "number", "error.code must be a number")
              \o Push(TypeOf(error.message) # "string", "error.message must be a string")
    ELSE << >>

validateResponse(response) ==
    IF NotAnObject(response)
    THEN [valid |-> FALSE, errors |-> << "Response must be an object" >>, warnings |-> << >>]
    ELSE LET hasResult == HasKey(response.result)
             hasError == HasKey(response.error.t)
         IN ValidationResult(
              Push(response.jsonrpc # "2.0", "jsonrpc field must be \"2.0\"")
              \o Push(~HasKey(response.id), "id field is required in a response")
              \o Push(~hasResult /\ ~hasError,
                      "Response must have either result or error field")
              \o Push(BothPresent(hasResult, hasError),
                      "Response cannot have both result and error fields")
              \o ErrorStructure(response.error),
              << >>)

----------------------------------------------------------------------------
(* ProtocolValidator *)

\* if (!result.valid || (this.strictMode && result.warnings.length > 0))
Accumulates(result, strict) == ~result.valid \/ (strict /\ Len(result.warnings) > 0)

\* this.validationErrors.push(...result.errors)
AccumulatedErrors(errors, result, strict) ==
    IF Accumulates(result, strict) THEN errors \o result.errors ELSE errors

\* this.validationWarnings.push(...result.warnings)
AccumulatedWarnings(warnings, result, strict) ==
    IF Accumulates(result, strict) THEN warnings \o result.warnings ELSE warnings

\* which branch of validateMessage a message takes
Dispatch(message) ==
    CASE NotAnObject(message) -> "notObject"
      [] HasKey(message.method) /\ HasKey(message.id) -> "request"
      [] HasKey(message.id) /\ (HasKey(message.result) \/ HasKey(message.error.t)) -> "response"
      [] HasKey(message.method) /\ ~HasKey(message.id) -> "notification"
      [] OTHER -> "unknown"

\* the ValidationResult validateMessage returns
validateMessage(message) ==
    CASE Dispatch(message) = "notObject" ->
            [valid |-> FALSE, errors |-> << "Message must be an object" >>, warnings |-> << >>]
      [] Dispatch(message) \in {"request", "notification"} -> validateRequest(message)
      [] Dispatch(message) = "response" -> validateResponse(message)
      [] OTHER ->
            [valid |-> FALSE, errors |-> << "Unable to determine message type" >>,
             warnings |-> << >>]

\* whether validateMessage goes through this.validateRequest / this.validateResponse
ThroughAccumulator(message) == Dispatch(message) \in {"request", "response"}

\* The messages the validator is given
NonObjects == { Message(sh, "absent", "absent", "absent", "absent", "absent", NoError) :
                   sh \in {"null", "string"} }

RequestInputs ==
    { Message("object", j, id, m, pa, "absent", NoError) :
         j \in {"2.0", "1.0"}, id \in {"absent", "null", "number"},
         m \in {"string", "absent", "number"}, pa \in FieldKinds }

ErrorInputs ==
    { ErrorValue(k, "absent", "absent") : k \in FieldKinds \ {"object"} }
    \cup { ErrorValue("object", c, m) :
             c \in {"number", "string", "absent"}, m \in {"string", "number", "absent"} }

ResponseInputs ==
    { Message("object", j, id, "absent", "absent", r, e) :
         j \in {"2.0", "1.0"}, id \in {"absent", "number"},
         r \in {"absent", "object", "null"}, e \in ErrorInputs }

MessageInputs == RequestInputs \cup ResponseInputs \cup NonObjects

\* a call returns `result`: what the accumulator and the histories become
ValidatorCall(op, input, result, accumulate) ==
    /\ nSteps < MaxSteps
    /\ validationErrors' =
          IF accumulate THEN AccumulatedErrors(validationErrors, result, strictMode)
          ELSE validationErrors
    /\ validationWarnings' =
          IF accumulate THEN AccumulatedWarnings(validationWarnings, result, strictMode)
          ELSE validationWarnings
    /\ returned' = [op |-> op, input |-> input, result |-> result]
    /\ seen' = [errors |-> seen.errors \o result.errors,
                warnings |-> seen.warnings \o result.warnings,
                invalid |-> seen.invalid \/ ~result.valid]
    /\ nSteps' = nSteps + 1
    /\ UNCHANGED << hostVars, player, strictMode, recorderVars >>

\* ProtocolValidator.validateRequest(request)
ValidatorValidateRequest(request) ==
    ValidatorCall("validateRequest", request, validateRequest(request), TRUE)

\* ProtocolValidator.validateResponse(response)
ValidatorValidateResponse(response) ==
    ValidatorCall("validateResponse", response, validateResponse(response), TRUE)

\* ProtocolValidator.validateMessage(message)
ValidatorValidateMessage(message) ==
    ValidatorCall("validateMessage", message, validateMessage(message),
                  ThroughAccumulator(message))

\* ProtocolValidator.reset()
ValidatorReset ==
    /\ nSteps < MaxSteps
    /\ validationErrors' = << >>
    /\ validationWarnings' = << >>
    /\ returned' = [op |-> "reset"]
    /\ seen' = NothingSeen
    /\ nSteps' = nSteps + 1
    /\ UNCHANGED << hostVars, player, strictMode, recorderVars >>

ValidatorInit ==
    /\ MockMCPHostNew([autoRespond |-> TRUE])
    /\ \E strict \in BOOLEAN : ProtocolValidatorNew(strict)
    /\ SessionRecorderNew
    /\ player = NoPlayer

\* The messages a series of calls is made with: a valid request, one without
\* id (valid, with a warning), two invalid ones, a valid response, one with
\* both result and error, one with neither, one whose error is null, and null
SeriesInputs ==
    { Message("object", "2.0", "number", "string", "object", "absent", NoError),
      Message("object", "2.0", "absent", "string", "absent", "absent", NoError),
      Message("object", "1.0", "absent", "string", "absent", "absent", NoError),
      Message("object", "2.0", "null", "string", "string", "absent", NoError),
      Message("object", "2.0", "number", "absent", "absent", "object", NoError),
      Message("object", "2.0", "number", "absent", "absent", "object",
              ErrorValue("object", "number", "string")),
      Message("object", "2.0", "number", "absent", "absent", "absent", NoError),
      Message("object", "2.0", "number", "absent", "absent", "absent",
              ErrorValue("null", "absent", "absent")),
      Message("null", "absent", "absent", "absent", "absent", "absent", NoError) }

ValidatorNext ==
    \/ \E m \in SeriesInputs : ValidatorValidateRequest(m)
    \/ \E m \in SeriesInputs : ValidatorValidateResponse(m)
    \/ \E m \in SeriesInputs : ValidatorValidateMessage(m)
    \/ ValidatorReset

ValidatorSpec == ValidatorInit /\ [][ValidatorNext]_vars

\* One call of a validation function on one message: the message is drawn
\* first, then a function is applied to it.
Drawn(message) == [op |-> "drawn", input |-> message]

Apply(op, result) ==
    /\ returned.op = "drawn"
    /\ returned' = [op |-> op, input |-> returned.input, result |-> result]
    /\ UNCHANGED << hostVars, player, validatorVars, recorderVars, seen, nSteps >>

ApplyValidateRequest == Apply("validateRequest", validateRequest(returned.input))
ApplyValidateResponse == Apply("validateResponse", validateResponse(returned.input))
ApplyValidateMessage == Apply("validateMessage", validateMessage(returned.input))

ValidationInit ==
    /\ MockMCPHostNew([autoRespond |-> TRUE])
    /\ strictMode = FALSE
    /\ validationErrors = << >>
    /\ validationWarnings = << >>
    /\ \E m \in MessageInputs : returned = Drawn(m)
    /\ seen = NothingSeen
    /\ nSteps = 0
    /\ SessionRecorderNew
    /\ player = NoPlayer

ValidationNext ==
    \/ ApplyValidateRequest
    \/ ApplyValidateResponse
    \/ ApplyValidateMessage

ValidationSpec == ValidationInit /\ [][ValidationNext]_vars

----------------------------------------------------------------------------
(* Session documents: JSON.stringify, JSON.parse and loadSession *)

\* the kinds of value a parsed JSON document holds: JSON has no undefined
JsonKinds == FieldKinds \ {"undefined"}

\* !v, where reading a key the object does not have gives undefined
Not(v) == v \in Falsy \cup {"absent"}

\* the metadata of a document: its kind and, when it is an object, its fields
MetadataValue(kind, hostName, protocolVersion, recordedDate) ==
    [t |-> kind, hostName |-> hostName, protocolVersion |-> protocolVersion,
     recordedDate |-> recordedDate]
NoMetadata(kind) == MetadataValue(kind, "absent", "absent", "absent")

\* the messages of a document: its kind and, when it is an array, its entries
MessagesValue(kind, entries) == [t |-> kind, entries |-> entries]

\* a document; shape is "object", or what the document is instead
Document(shape, meta, msgs) == [shape |-> shape, metadata |-> meta, messages |-> msgs]

\* a JSON text and what JSON.parse makes of it
Text(document) == [wellFormed |-> TRUE, document |-> document]
Malformed == [wellFormed |-> FALSE]

\* an Array.isArray that took every object for an array
IsArrayLoose(v) == TypeOf(v) = "object" /\ v # "null"

\* Array.isArray(v)
IsArray(v) == v = "array"

LoadThrew(text) == [threw |-> TRUE, error |-> text]
Loaded(document) == [threw |-> FALSE, session |-> document]

\* loadSession(jsonString); reading a property of null throws a TypeError
loadSession(jsonString) ==
    IF ~jsonString.wellFormed THEN LoadThrew("SyntaxError")
    ELSE LET parsed == jsonString.document
         IN IF parsed.shape = "null" THEN LoadThrew("TypeError")
            ELSE IF Not(parsed.metadata.t) \/ Not(parsed.messages.t)
            THEN LoadThrew("Invalid session format: missing metadata or messages")
            ELSE IF ~IsArray(parsed.messages.t)
            THEN LoadThrew("Invalid session format: messages must be an array")
            ELSE Loaded(parsed)

\* a JSON.stringify that left out every falsy property
JsonOfTruthy(v) == IF v \in Falsy THEN "absent" ELSE v

\* JSON.stringify of a property of an object: a property whose value is
\* undefined is left out, every other kind of value is written
JsonOf(v) == IF v = "undefined" THEN "absent" ELSE v

\* JSON.stringify of a message (an object)
JsonOfMessage(message) ==
    [shape |-> message.shape, jsonrpc |-> message.jsonrpc,
     id |-> JsonOf(message.id), method |-> JsonOf(message.method),
     params |-> JsonOf(message.params), result |-> JsonOf(message.result),
     error |-> [t |-> JsonOf(message.error.t), code |-> JsonOf(message.error.code),
                message |-> JsonOf(message.error.message)]]

\* JSON.stringify of an entry of the log: a number, a string and a message
JsonOfEntry(entry) ==
    [timestamp |-> entry.timestamp, direction |-> entry.direction,
     message |-> JsonOfMessage(entry.message)]

\* getSession(): { metadata: {...this.metadata, recordedDate: new Date().toISOString()},
\*                messages: [...this.messages], constraints, capabilities }
\* (constraints and capabilities, undefined unless given, are not kept here)
SessionDocument(meta, log) ==
    Document("object", [meta EXCEPT !.recordedDate = "string"], MessagesValue("array", log))

\* JSON.stringify(session, null, 2)
Stringify(document) ==
    Text(Document(document.shape,
                  [t |-> document.metadata.t,
                   hostName |-> JsonOf(document.metadata.hostName),
                   protocolVersion |-> JsonOf(document.metadata.protocolVersion),
                   recordedDate |-> JsonOf(document.metadata.recordedDate)],
                  MessagesValue(document.messages.t,
                                [k \in DOMAIN document.messages.entries |->
                                    JsonOfEntry(document.messages.entries[k])])))

----------------------------------------------------------------------------
(* SessionRecorder *)

Directions == {"client-to-server", "server-to-client"}

\* the messages recorded: a valid request as sendRequest builds it for a call
\* without params (params: undefined), here with the id 0, an invalid request,
\* an invalid notification (which carries a warning), and a valid response
RecordInputs ==
    { Message("object", "2.0", "zero", "string", "undefined", "absent", NoError),
      Message("object", "1.0", "number", "string", "absent", "absent", NoError),
      Message("object", "1.0", "absent", "string", "absent", "absent", NoError),
      Message("object", "2.0", "number", "absent", "absent", "object", NoError) }

\* the recordMessage calls made: a client sends requests and a server answers
Recorded ==
    { call \in Directions \X RecordInputs :
        call[1] = IF call[2].method = "absent" THEN "server-to-client"
                                               ELSE "client-to-server" }

Threw(op, text) == [op |-> op, threw |-> TRUE, error |-> text]
Done(op) == [op |-> op, threw |-> FALSE]

\* a call that throws before it assigns anything
Throws(op, text) ==
    /\ returned' = Threw(op, text)
    /\ UNCHANGED << hostVars, player, validatorVars, recorderVars, seen, nSteps >>

\* a startRecording that kept the working log
StartedLogKept(log) == log

\* startRecording: this.messages = []
StartedLog(log) == << >>

\* a recorder whose methods did not look at the flag
GuardIgnored(flag, wanted) == TRUE

\* if (this.recording) throw ... / if (!this.recording) throw ...
Guard(flag, wanted) == flag = wanted

\* a recordMessage that kept only the messages that passed validation
PushMessageIfValid(log, validation, entry) ==
    IF validation.valid THEN Append(log, entry) ELSE log

\* this.messages.push(sessionMessage): the validation only warns on the console
PushMessage(log, validation, entry) == Append(log, entry)

\* a getSession that handed out the working log itself
SnapshotOfLog(log) == [taken |-> TRUE, shared |-> TRUE, messages |-> log]

\* messages: [...this.messages], a new array with the entries of the log
Snapshot(log) == [taken |-> TRUE, shared |-> FALSE, messages |-> log]

\* this.messages.push(...) as seen through a session taken earlier: the push
\* shows in it only if its array is the working log itself
SeenAfterPush(held, validation, entry) ==
    IF held.shared THEN [held EXCEPT !.messages = PushMessage(@, validation, entry)]
    ELSE held

\* this.messages = []: the working log is a new array, every session taken
\* earlier keeps the array it has
SeenAfterAssign(held) == [held EXCEPT !.shared = FALSE]

\* a timestamp that is the time of the clock
ElapsedAbsolute(time, start) == time

\* timestamp: Date.now() - this.startTime
Elapsed(time, start) == time - start

\* the time passes
Tick ==
    /\ now < MaxNow
    /\ now' = now + 1
    /\ UNCHANGED << hostVars, player, validatorVars, recording, messages, startTime, metadata,
                    session, cycle,
                    returned, seen, nSteps >>

StartRecording ==
    IF ~Guard(recording, FALSE)
    THEN Throws("startRecording", "Already recording")
    ELSE /\ cycle.starts < MaxStarts
         /\ recording' = TRUE
         /\ startTime' = now
         /\ messages' = StartedLog(messages)
         /\ session' = SeenAfterAssign(session)
         /\ validationErrors' = << >>
         /\ validationWarnings' = << >>
         /\ seen' = NothingSeen
         /\ cycle' = [entries |-> << >>, starts |-> cycle.starts + 1,
                      before |-> cycle.before \/ Len(cycle.entries) > 0, at |-> now]
         /\ returned' = Done("startRecording")
         /\ UNCHANGED << hostVars, player, strictMode, now, metadata, nSteps >>

StopRecording ==
    IF ~Guard(recording, TRUE)
    THEN Throws("stopRecording", "Not currently recording")
    ELSE /\ recording' = FALSE
         /\ returned' = Done("stopRecording")
         /\ UNCHANGED << hostVars, player, validatorVars, messages, startTime, now, metadata,
                         session, cycle,
                         seen, nSteps >>

RecordMessage(direction, message) ==
    IF ~Guard(recording, TRUE)
    THEN Throws("recordMessage", "Not currently recording. Call startRecording() first.")
    ELSE LET validation == validateMessage(message)
             through == ThroughAccumulator(message)
         IN /\ Len(messages) < MaxMessages
            /\ validationErrors' =
                  IF through THEN AccumulatedErrors(validationErrors, validation, strictMode)
                  ELSE validationErrors
            /\ validationWarnings' =
                  IF through THEN AccumulatedWarnings(validationWarnings, validation, strictMode)
                  ELSE validationWarnings
            /\ seen' = [errors |-> seen.errors \o validation.errors,
                        warnings |-> seen.warnings \o validation.warnings,
                        invalid |-> seen.invalid \/ ~validation.valid]
            /\ messages' = PushMessage(messages, validation,
                                        [timestamp |-> Elapsed(now, startTime),
                                         direction |-> direction, message |-> message])
            /\ session' = SeenAfterPush(session, validation,
                                         [timestamp |-> Elapsed(now, startTime),
                                          direction |-> direction, message |-> message])
            /\ cycle' = [cycle EXCEPT !.entries = Append(@, << direction, message >>)]
            /\ returned' = Done("recordMessage")
            /\ UNCHANGED << hostVars, player, strictMode, recording, startTime, now, metadata,
                            nSteps >>

\* getSession(): messages: [...this.messages]
GetSession ==
    /\ session' = Snapshot(messages)
    /\ returned' = [op |-> "getSession", threw |-> FALSE, session |-> [messages |-> messages]]
    /\ UNCHANGED << hostVars, player, validatorVars, recording, messages, startTime, now, metadata,
                    cycle, seen, nSteps >>

\* exportSession()
ExportSession ==
    /\ returned' = [op |-> "exportSession", threw |-> FALSE,
                    text |-> Stringify(SessionDocument(metadata, messages))]
    /\ UNCHANGED << hostVars, player, validatorVars, recorderVars, seen, nSteps >>

\* SessionRecorder.reset()
RecorderReset ==
    /\ recording' = FALSE
    /\ startTime' = 0
    /\ messages' = << >>
    /\ session' = SeenAfterAssign(session)
    /\ validationErrors' = << >>
    /\ validationWarnings' = << >>
    /\ seen' = NothingSeen
    /\ cycle' = [cycle EXCEPT !.entries = << >>, !.before = @ \/ Len(cycle.entries) > 0]
    /\ returned' = Done("reset")
    /\ UNCHANGED << hostVars, player, strictMode, now, metadata, nSteps >>

RecorderInit ==
    /\ MockMCPHostNew([autoRespond |-> TRUE])
    /\ ProtocolValidatorNew(FALSE)
    /\ SessionRecorderNew
    /\ player = NoPlayer

RecorderNext ==
    \/ StartRecording
    \/ StopRecording
    \/ \E call \in Recorded : RecordMessage(call[1], call[2])
    \/ GetSession
    \/ ExportSession
    \/ RecorderReset

\* the calls on a recorder, made faster than the clock ticks
RecorderSpec == RecorderInit /\ [][RecorderNext]_vars

\* the timestamp of an entry does not depend on the message recorded: one
\* kind of message is recorded here
TimedCalls == { call \in Recorded : validateMessage(call[2]).valid /\ call[1] = "client-to-server" }

TimedNext ==
    \/ StartRecording
    \/ StopRecording
    \/ \E call \in TimedCalls : RecordMessage(call[1], call[2])
    \/ GetSession
    \/ RecorderReset
    \/ Tick

\* the calls on a recorder, and the time that passes between them
TimedSpec == RecorderInit /\ [][TimedNext]_vars

----------------------------------------------------------------------------
(* Loading session documents *)

\* the entries of the documents loaded
EntryInputs ==
    { [timestamp |-> 0, direction |-> call[1], message |-> call[2]] : call \in Recorded }

\* the documents loaded: every kind of metadata with every kind of messages
\* (arrays of up to MaxMessages entries), what is not an object, and a text
\* that is not JSON
DocumentInputs ==
    { Document("object", NoMetadata(k), MessagesValue(j, << >>))
        : k \in JsonKinds, j \in JsonKinds }
    \cup { Document("object", MetadataValue("object", "string", "string", "string"),
                    MessagesValue("array", entries))
              : entries \in UNION { [1..n -> EntryInputs] : n \in 0..MaxMessages } }
    \cup { Document(shape, NoMetadata("absent"), MessagesValue("absent", << >>))
              : shape \in {"null", "array", "string", "number"} }

TextInputs == { Text(d) : d \in DocumentInputs } \cup { Malformed }

LoadSession ==
    /\ returned.op = "drawn"
    /\ returned' = [op |-> "loadSession", input |-> returned.input,
                    result |-> loadSession(returned.input)]
    /\ UNCHANGED << hostVars, player, validatorVars, recorderVars, seen, nSteps >>

LoaderInit ==
    /\ MockMCPHostNew([autoRespond |-> TRUE])
    /\ strictMode = FALSE
    /\ validationErrors = << >>
    /\ validationWarnings = << >>
    /\ \E text \in TextInputs : returned = Drawn(text)
    /\ seen = NothingSeen
    /\ nSteps = 0
    /\ SessionRecorderNew
    /\ player = NoPlayer

LoaderNext == LoadSession

LoaderSpec == LoaderInit /\ [][LoaderNext]_vars

----------------------------------------------------------------------------
(* SessionPlayer.replay, as the specification describes it *)

\* the entries of the sessions replayed: requests of a client, one the default
\* peer answers and one it does not know, and a message of the server
PlayInputs ==
    { [direction |-> "client-to-server", method |-> "initialize"],
      [direction |-> "client-to-server", method |-> "unknown/method"],
      [direction |-> "server-to-client", method |-> ""] }

\* the sessions replayed: entry k was recorded at time k - 1
PlaySessions ==
    UNION { [1..n -> PlayInputs] : n \in 0..MaxMessages }

PlayTimestamp(k) == k - 1

\* the speeds of a replay: 0 is no delay, 1 the recorded pace
Speeds == {0, 1}

\* a replay that stopped at the first validation failure
ReplayDoneOnError(p) == p.index = Len(p.entries) \/ Len(p.errors) > 0

\* the loop over the entries has come to its end
ReplayDone(p) == p.index = Len(p.entries)

\* speed x (this.timestamp - previous.timestamp), awaited before an entry
ReplayDelay(p) ==
    IF p.index = 0 THEN 0
    ELSE p.speed * (PlayTimestamp(p.index + 1) - PlayTimestamp(p.index))

\* whether the validation of an entry may fail: only when validate is asked for
ValidationOutcomes(validate) == IF validate THEN BOOLEAN ELSE {FALSE}

\* a validation failure is appended to the error list
ReplayErrors(errors, failed, k) == IF failed THEN Append(errors, k) ELSE errors

\* { messagesPlayed, success: errors.length === 0, errors }
PlaybackResult(count, errors) ==
    [returned |-> TRUE, messagesPlayed |-> count, success |-> Len(errors) = 0,
     errors |-> errors]

\* player.replay(peer, { speed, validate })
Replay(entries, validate, speed) ==
    /\ player.pc = "idle"
    /\ player' = [NoPlayer EXCEPT !.pc = "loop", !.entries = entries,
                                  !.validate = validate, !.speed = speed]
    /\ UNCHANGED << hostVars, validatorVars, recorderVars, returned, seen, nSteps >>

\* the top of the loop: return after the last entry, or go to the next one,
\* after the delay if there is one
ReplayLoop ==
    /\ player.pc = "loop"
    /\ player' = IF ReplayDone(player)
                 THEN [player EXCEPT !.pc = "returned",
                                     !.result = PlaybackResult(player.index, player.errors)]
                 ELSE IF ReplayDelay(player) > 0 THEN [player EXCEPT !.pc = "waiting"]
                 ELSE [player EXCEPT !.pc = "play"]
    /\ UNCHANGED << hostVars, validatorVars, recorderVars, returned, seen, nSteps >>

\* the delay is over
ReplayTimer ==
    /\ player.pc = "waiting"
    /\ player' = [player EXCEPT !.pc = "play"]
    /\ UNCHANGED << hostVars, validatorVars, recorderVars, returned, seen, nSteps >>

\* the entry is played: a request of the client is sent through the peer's
\* sendRequest, a message of the server is delivered as recorded
ReplayPlay ==
    LET k == player.index + 1
        entry == player.entries[k]
    IN /\ player.pc = "play"
       /\ IF entry.direction = "client-to-server"
          THEN /\ Send(entry.method, 0)
               /\ player' = [player EXCEPT !.pc = "awaiting", !.child = Len(tasks) + 1,
                                           !.visited = Append(@, k)]
          ELSE /\ \E failed \in ValidationOutcomes(player.validate) :
                     player' = [player EXCEPT !.pc = "loop", !.index = k,
                                             !.visited = Append(@, k),
                                             !.errors = ReplayErrors(@, failed, k)]
               /\ UNCHANGED << requestIdCounter, recordedMessages, tasks >>
       /\ UNCHANGED << requestInterceptors, responseInterceptors, messageHandlers,
                       requestMocks, capabilities, initialized, tools, nCalls, nResets,
                       nCleanups, latest, config, objects, given,
                       validatorVars, recorderVars, returned, seen, nSteps >>

\* the peer's response arrives and is checked
ReplaySettled ==
    /\ player.pc = "awaiting"
    /\ tasks[player.child].pc = "done"
    /\ \E failed \in ValidationOutcomes(player.validate) :
          player' = [player EXCEPT !.pc = "loop", !.index = @ + 1, !.child = 0,
                                  !.errors = ReplayErrors(@, failed, player.index + 1)]
    /\ UNCHANGED << hostVars, validatorVars, recorderVars, returned, seen, nSteps >>

ReplayNext ==
    \/ \E entries \in PlaySessions, validate \in BOOLEAN, speed \in Speeds :
          Replay(entries, validate, speed)
    \/ ReplayLoop
    \/ ReplayTimer
    \/ ReplayPlay
    \/ ReplaySettled
    \/ \E i \in DOMAIN tasks : ShouldMock(i)

ReplaySpec == Init /\ [][ReplayNext]_vars

----------------------------------------------------------------------------
(* SessionPlayer.compareSessions, as the specification describes it *)

\* the entries of the sessions compared: requests with two methods, and
\* responses with a result and with an error
CompareInputs ==
    { [direction |-> "client-to-server", method |-> "ping", shape |-> "request"],
      [direction |-> "client-to-server", method |-> "initialize", shape |-> "request"],
      [direction |-> "server-to-client", method |-> "", shape |-> "result"],
      [direction |-> "server-to-client", method |-> "", shape |-> "error"] }

ComparedSessions == UNION { [1..n -> CompareInputs] : n \in 0..MaxMessages }

Longest(a, b) == IF Len(a) >= Len(b) THEN Len(a) ELSE Len(b)

\* a difference string: what differs, and at which index (0: the counts)
Difference(what, k) == [what |-> what, index |-> k]

\* a comparison that looked for the entry anywhere in the other session
EntryDifferencesAnywhere(a, b, k) ==
    IF k > Len(a) \/ k > Len(b) THEN << Difference("missing", k) >>
    ELSE IF \E j \in DOMAIN b : b[j] = a[k] THEN << >>
    ELSE << Difference("method", k) >>

\* the differences of the entries at index k: a missing entry, a differing
\* direction, a differing method (or shape of result/error)
EntryDifferences(a, b, k) ==
    IF k > Len(a) \/ k > Len(b) THEN << Difference("missing", k) >>
    ELSE Push(a[k].direction # b[k].direction, Difference("direction", k))
         \o Push(a[k].method # b[k].method \/ a[k].shape # b[k].shape,
                 Difference("method", k))

RECURSIVE DifferencesUpTo(_, _, _)
DifferencesUpTo(a, b, n) ==
    IF n = 0 THEN << >>
    ELSE DifferencesUpTo(a, b, n - 1) \o EntryDifferences(a, b, n)

\* SessionPlayer.compareSessions(a, b)
compareSessions(a, b) ==
    LET differences == Push(Len(a) # Len(b), Difference("count", 0))
                       \o DifferencesUpTo(a, b, Longest(a, b))
    IN [identical |-> Len(differences) = 0, differences |-> differences]

CompareSessions ==
    /\ returned.op = "drawn"
    /\ returned' = [op |-> "compareSessions", input |-> returned.input,
                    result |-> compareSessions(returned.input[1], returned.input[2])]
    /\ UNCHANGED << hostVars, player, validatorVars, recorderVars, seen, nSteps >>

CompareInit ==
    /\ MockMCPHostNew([autoRespond |-> TRUE])
    /\ strictMode = FALSE
    /\ validationErrors = << >>
    /\ validationWarnings = << >>
    /\ \E a \in ComparedSessions, b \in ComparedSessions : returned = Drawn(<< a, b >>)
    /\ seen = NothingSeen
    /\ nSteps = 0
    /\ SessionRecorderNew
    /\ player = NoPlayer

CompareNext == CompareSessions

CompareSpec == CompareInit /\ [][CompareNext]_vars

----------------------------------------------------------------------------
(* expectMessageSequence *)

\* getRecordedRequests(): the messages with a method and an id
RECURSIVE getRecordedRequests(_)
getRecordedRequests(log) ==
    IF log = << >> THEN << >>
    ELSE IF Head(log).kind = "request"
         THEN << Head(log) >> \o getRecordedRequests(Tail(log))
         ELSE getRecordedRequests(Tail(log))

\* requests.map(r => r.method)
MethodsOf(requests) == [k \in DOMAIN requests |-> requests[k].method]

\* an indexOf that searched the whole array
IndexOfAnywhere(array, wanted, from) ==
    LET found == { i \in 0..(Len(array) - 1) : array[i + 1] = wanted }
    IN IF found = {} THEN -1 ELSE CHOOSE i \in found : \A j \in found : i <= j

\* array.indexOf(wanted, from): the first index at or after `from` that holds
\* `wanted` (indexes start at 0), or -1
IndexOf(array, wanted, from) ==
    LET found == { i \in from..(Len(array) - 1) : array[i + 1] = wanted }
    IN IF found = {} THEN -1 ELSE CHOOSE i \in found : \A j \in found : i <= j

\* for (const expected of expectedMethods) ...: TRUE when the loop ends
\* without a throw
RECURSIVE SequenceFound(_, _, _)
SequenceFound(methods, expectedMethods, searchFrom) ==
    IF expectedMethods = << >> THEN TRUE
    ELSE LET idx == IndexOf(methods, Head(expectedMethods), searchFrom)
         IN IF idx = -1 THEN FALSE
            ELSE SequenceFound(methods, Tail(expectedMethods), idx + 1)

\* expectMessageSequence(interceptor, expectedMethods): returns or throws
expectMessageSequence(log, expectedMethods) ==
    LET requests == getRecordedRequests(log)
        methods == MethodsOf(requests)
    IN [threw |-> ~SequenceFound(methods, expectedMethods, 0)]

\* the messages of the logs read: two requests and a response
LogInputs ==
    { Request(1, "initialize"), Request(2, "tools/list"), ResultResponse(1, "ok") }

LogsRead == UNION { [1..n -> LogInputs] : n \in 0..MaxLog }

ExpectedInputs ==
    UNION { [1..n -> {"initialize", "tools/list"}] : n \in 0..MaxLog }

ExpectMessageSequence ==
    /\ returned.op = "drawn"
    /\ returned' = [op |-> "expectMessageSequence", input |-> returned.input,
                    result |-> expectMessageSequence(returned.input[1], returned.input[2])]
    /\ UNCHANGED << hostVars, player, validatorVars, recorderVars, seen, nSteps >>

SequenceInit ==
    /\ MockMCPHostNew([autoRespond |-> TRUE])
    /\ strictMode = FALSE
    /\ validationErrors = << >>
    /\ validationWarnings = << >>
    /\ \E log \in LogsRead, expected \in ExpectedInputs : returned = Drawn(<< log, expected >>)
    /\ seen = NothingSeen
    /\ nSteps = 0
    /\ SessionRecorderNew
    /\ player = NoPlayer

SequenceNext == ExpectMessageSequence

SequenceSpec == SequenceInit /\ [][SequenceNext]_vars

----------------------------------------------------------------------------
(* Definitions used to state the claims *)

\* the message left by passing `message` through `hooks`, first to last
RECURSIVE FoldHooks(_, _)
FoldHooks(message, hooks) ==
    IF hooks = << >> THEN message
    ELSE ApplyHook(hooks[Len(hooks)], FoldHooks(message, SubSeq(hooks, 1, Len(hooks) - 1)))

\* the position of call i among the sendRequest calls made since construction
\* or since the cleanup() that precedes it
Ordinal(ts, i) == Cardinality({j \in 1..i : ts[j].gen = ts[i].gen})

\* the sendRequest call made in this step, if any
NewTasks == DOMAIN tasks' \ DOMAIN tasks

\* call i looks its mock up in this step
LooksUp(i) == tasks[i].pc = "lookup" /\ tasks'[i].pc # "lookup"

\* call i enters interceptResponse in this step
EntersInterceptResponse(i) ==
    /\ tasks[i].pc \in {"lookup", "handler"}
    /\ tasks'[i].pc \in {"respHook", "respMsg", "done"}

\* call i returns its response in this step
Returns(i) == tasks[i].pc # "done" /\ tasks'[i].pc = "done"

\* call i found no mock
NotFound(t) == t.resp.kind = "response" /\ t.h.kind = "none"

\* the sendRequest calls callTool c has made
Issued(c) == {i \in DOMAIN tasks : tasks[i].owner = c}

EmptyBus ==
    /\ requestInterceptors = << >>
    /\ responseInterceptors = << >>
    /\ messageHandlers = << >>
    /\ \A m \in Methods : requestMocks[m] = NoHandler
    /\ recordedMessages = << >>

----------------------------------------------------------------------------
(* C1: for a fresh peer the k-th sendRequest call (also those made by
   initialize, callTool and the list helpers) uses id k: ids start at 1,
   increase by call order, and none is used twice until cleanup(). *)
C1_MonotonicIds ==
    \A i \in DOMAIN tasks : tasks[i].req.id = Ordinal(tasks, i)

C1_Witness ==
    /\ Len(tasks) = 3
    /\ nCleanups = 0
    /\ \E i \in DOMAIN tasks : tasks[i].method = "initialize"
    /\ \E i \in DOMAIN tasks : tasks[i].owner > 0
    /\ tasks[3].req.id = 3

(* C2, as amended: when the mock lookup of a sendRequest finds nothing, the call
   does not throw there: it builds the error response {code -32601, message
   "Method not found: <the method passed to sendRequest>"} with the id of the
   request as the request hooks returned it, and gives it to interceptResponse,
   which records it and runs the response hooks on it; unless a hook rejects,
   sendRequest resolves with that response as the hooks return it. *)
C2_NotFoundAmended ==
    [][ /\ \A i \in DOMAIN tasks :
              (LooksUp(i) /\ MockGet(requestMocks, tasks[i].msg).kind = "none") =>
                 /\ tasks'[i].resp =
                       ErrorResponse(tasks[i].msg.id, MethodNotFound,
                                     "Method not found: " \o tasks[i].method)
                 /\ EntersInterceptResponse(i)
                 /\ recordedMessages' = Append(recordedMessages, tasks'[i].resp)
                 /\ (tasks'[i].pc = "respHook") = (responseInterceptors # << >>)
        /\ \A i \in DOMAIN tasks' :
              (NotFound(tasks'[i]) /\ tasks'[i].pc = "done") =>
                 /\ tasks'[i].msg = FoldHooks(tasks'[i].resp, tasks'[i].ran)
                 /\ ~tasks'[i].msg.ok
                 /\ tasks'[i].msg.code = MethodNotFound
                 /\ tasks'[i].msg.id = tasks'[i].ireq.id
      ]_vars

C2_Witness ==
    \E i \in DOMAIN tasks :
        /\ NotFound(tasks[i])
        /\ tasks[i].pc = "done"
        /\ tasks[i].method = "unknown/method"
        /\ tasks[i].msg.trail # << >>
        /\ \E k \in DOMAIN recordedMessages : recordedMessages[k] = tasks[i].resp

(* C2, as stated: sendRequest for a method with no registered mock resolves (it
   does not throw) with the error {code -32601, "Method not found: <method>"}
   and the request's id. *)
C2_Original ==
    \A i \in DOMAIN tasks :
        NotFound(tasks[i]) =>
            /\ tasks[i].pc # "rejected"
            /\ tasks[i].resp =
                  ErrorResponse(tasks[i].req.id, MethodNotFound,
                                "Method not found: " \o tasks[i].method)

(* C3: every interceptRequest and interceptResponse call appends the message it
   is given to the log, once and at the end, when the call starts (before its
   hooks return and whether or not the method is mocked); so the log is in the
   order of the calls. *)
C3_RecordsInCallOrder ==
    [][ /\ \A i \in NewTasks :
              recordedMessages' = Append(recordedMessages, tasks'[i].req)
        /\ \A i \in DOMAIN tasks :
              EntersInterceptResponse(i) =>
                 recordedMessages' = Append(recordedMessages, tasks'[i].resp)
      ]_vars

C3_Witness ==
    /\ Len(recordedMessages) = 4
    /\ recordedMessages[1].kind = "request"
    /\ recordedMessages[2].kind = "request"
    /\ recordedMessages[3].kind = "response" /\ recordedMessages[3].id = 2
    /\ ~recordedMessages[3].ok
    /\ recordedMessages[4].kind = "response" /\ recordedMessages[4].id = 1
    /\ recordedMessages[4].ok

(* C4: in one interceptRequest call the request hooks run in the order they
   were registered, one after the other, each given what the one before
   returned (the first is given the request); the same for the response hooks
   of interceptResponse. *)
C4_HooksFoldInOrder ==
    \A i \in DOMAIN tasks :
        LET t == tasks[i] IN
        /\ \A k \in DOMAIN t.ran : t.ran[k].reg = k
        /\ t.pc = "reqHook" =>
              /\ t.ran = SubSeq(t.arr, 1, t.idx - 1)
              /\ t.msg = FoldHooks(t.req, t.ran)
        /\ t.pc \in {"reqMsg", "lookup"} => t.msg = FoldHooks(t.req, t.ran)
        /\ t.pc = "respHook" =>
              /\ t.ran = SubSeq(t.arr, 1, t.idx - 1)
              /\ t.msg = FoldHooks(t.resp, t.ran)
        /\ t.pc \in {"respMsg", "done"} => t.msg = FoldHooks(t.resp, t.ran)

C4_Witness ==
    \E i \in DOMAIN tasks :
        /\ tasks[i].pc = "lookup"
        /\ Len(tasks[i].ran) = 2
        /\ tasks[i].msg.trail = << 1, 2 >>

(* C5: after several mockResponse calls for a method, shouldMock invokes only
   the handler registered last; a handler registered over a default
   auto-responder replaces it, and the default is not invoked again. *)
C5_LastMockWins ==
    [][ \A i \in DOMAIN tasks :
           LooksUp(i) =>
              LET m == tasks[i].msg.method
                  h == tasks'[i].h
              IN IF latest[m] > 0
                 THEN h.kind \notin {"none", "default"} /\ h.reg = latest[m]
                 ELSE h = (IF nResets = 0 /\ config.autoRespond
                           THEN AutoResponders[m] ELSE NoHandler)
      ]_vars

C5_Witness ==
    \E i \in DOMAIN tasks :
        /\ tasks[i].h.reg = 2
        /\ tasks[i].h.kind = "err"
        /\ latest["tools/call"] = 2
        /\ ~tasks[i].resp.ok

(* C6, as amended: a new peer reports isInitialized() = false, and when an
   initialize exchange that the default initialize auto-responder answered
   returns its response, with no cleanup() since the request was sent,
   isInitialized() is true. *)
C6_InitializedByDefaultResponder ==
    /\ ~initialized
    /\ [][ \A i \in DOMAIN tasks :
              ( /\ Returns(i)
                /\ tasks'[i].h.kind = "default"
                /\ tasks'[i].ireq.method = "initialize"
                /\ tasks'[i].gen = nCleanups' ) => initialized'
         ]_vars

C6_Witness ==
    \E i \in DOMAIN tasks :
        /\ tasks[i].method = "initialize"
        /\ tasks[i].pc = "done"
        /\ tasks[i].h.kind = "default"
        /\ tasks[i].msg.ok
        /\ tasks[i].msg.trail # << >>
        /\ initialized

(* C6, as stated: after any initialize exchange that returns a response with a
   result and no error, isInitialized() is true, whatever mocks and hooks are
   registered. *)
C6_Original ==
    [][ \A i \in DOMAIN tasks :
           (Returns(i) /\ tasks'[i].method = "initialize" /\ tasks'[i].msg.ok)
              => initialized'
      ]_vars

(* C7: once isInitialized() is true it stays true under every call but
   cleanup(). *)
C7_InitializedOneWay ==
    [][ (initialized /\ ~initialized') => nCleanups' = nCleanups + 1 ]_vars

C7_Witness ==
    /\ initialized
    /\ Len(tasks) = 2
    /\ tasks[1].method = "initialize" /\ tasks[1].pc = "done"
    /\ tasks[2].pc = "done"
    /\ capabilities # "{}"

(* C8: after cleanup() the log, the hooks and the mock registry are empty,
   isInitialized() is false and the id counter is 0, so that the next
   sendRequest uses id 1. *)
C8_CleanupResets ==
    [][ /\ nCleanups' # nCleanups =>
              /\ EmptyBus'
              /\ ~initialized'
              /\ requestIdCounter' = 0
        /\ \A i \in NewTasks :
              (\A j \in DOMAIN tasks : tasks[j].gen # tasks'[i].gen) =>
                 tasks'[i].req.id = 1
      ]_vars

C8_Witness ==
    /\ nCleanups = 1
    /\ Len(tasks) = 2
    /\ tasks[1].gen = 0 /\ tasks[1].req.id = 1
    /\ tasks[2].gen = 1 /\ tasks[2].req.id = 1

(* C9: after reset() the log is empty and no bus operation begun later invokes
   a hook or a mock registered before the reset; a second reset() leaves the
   bus as the first left it. *)
C9_ResetClears ==
    [][ /\ nResets' # nResets => EmptyBus'
        /\ \A k \in DOMAIN requestInterceptors' : requestInterceptors'[k].ep = nResets'
        /\ \A k \in DOMAIN responseInterceptors' : responseInterceptors'[k].ep = nResets'
        /\ \A k \in DOMAIN messageHandlers' : messageHandlers'[k].ep = nResets'
        /\ \A i \in DOMAIN tasks' :
              LET t == tasks'[i] IN
              /\ t.pc \in {"reqHook", "reqMsg", "respHook", "respMsg"} =>
                    t.arr[t.idx].ep >= t.ep
              /\ t.pc = "handler" => t.h.ep >= t.ep
        /\ \A i \in DOMAIN tasks :
              (LooksUp(i) /\ tasks'[i].h.kind # "none") => tasks'[i].h.ep = nResets
      ]_vars

C9_Witness ==
    /\ nResets = 1
    /\ EmptyBus
    /\ \E i \in DOMAIN tasks :
          /\ tasks[i].method \in DefaultMethods
          /\ tasks[i].ep = 1
          /\ NotFound(tasks[i])

(* C10, as amended: one callTool call makes at most retries+1 tools/call
   requests: it makes the next only if every one so far ended in an error
   response, in a rejection of sendRequest or in a timeout; it stops at the
   first response without an error and returns it; and it makes exactly
   retries+1 when every attempt fails. *)
C10_BoundedRetries ==
    \A c \in DOMAIN tools :
        LET tl == tools[c]
            n == Cardinality(Issued(c))
        IN /\ n <= tl.retries + 1
           /\ Len(tl.outcomes) \in {n - 1, n}
           /\ \A k \in 1..(n - 1) : tl.outcomes[k] \in {"error", "rejected", "timeout"}
           /\ tl.pc \in {"racing"} => Len(tl.outcomes) = n - 1
           /\ tl.pc = "returned" =>
                 /\ tl.outcomes[n] = "ok"
                 /\ tl.result.kind = "response" /\ tl.result.ok
                 /\ tl.result = tasks[tl.child].msg
           /\ tl.pc = "thrown" =>
                 /\ n = tl.retries + 1
                 /\ \A k \in 1..n : tl.outcomes[k] \in {"error", "rejected", "timeout"}

C10_Witness ==
    \E c \in DOMAIN tools :
        /\ tools[c].pc = "thrown"
        /\ tools[c].retries = 1
        /\ Cardinality(Issued(c)) = 2
        /\ tools[c].outcomes = << "timeout", "error" >>

(* C10, as stated: callTool makes attempt k+1 only if attempts 1..k each ended
   in an error response or a timeout. *)
C10_Original ==
    \A c \in DOMAIN tools :
        \A k \in 1..(Cardinality(Issued(c)) - 1) :
            tools[c].outcomes[k] \in {"error", "timeout"}

(* C11: when every attempt of a callTool call has failed, callTool rejects: a
   response with an error is never its return value, and the Error thrown
   carries, after "Tool call failed after <retries+1> attempts: ", the message
   of the last attempt's failure: the error.message of the error response
   that attempt returned, the timeout message if it timed out, the message of
   the rejection if its sendRequest rejected. *)
C11_ThrowsLastMessage ==
    \A c \in DOMAIN tools :
        LET tl == tools[c]
            n == Len(tl.outcomes)
        IN /\ tl.pc = "returned" => tl.result.ok /\ tl.error = ""
           /\ (tl.pc \in {"backoff", "thrown"} /\ n > 0) => tl.outcomes[n] # "ok"
           /\ tl.pc = "thrown" =>
                 /\ tl.result = NoMessage
                 /\ n = tl.retries + 1
                 /\ tl.error =
                       "Tool call failed after " \o ToString(n) \o " attempts: " \o
                       ( CASE tl.outcomes[n] = "error" -> tasks[tl.child].msg.data
                           [] tl.outcomes[n] = "timeout" -> "Tool call timeout"
                           [] OTHER -> "hook failed" )

C11_Witness ==
    \E c \in DOMAIN tools :
        /\ tools[c].pc = "thrown"
        /\ tools[c].outcomes = << "timeout", "error" >>
        /\ tools[c].error = "Tool call failed after 2 attempts: tool failed"

(* C12: every callTool call terminates: whatever the hooks and the mock handler
   do, also when one of them never settles, the call eventually returns a
   response or rejects, provided timers fire. *)
C12_CallToolTerminates ==
    \A c \in 1..MaxCalls :
        [](c \in DOMAIN tools =>
              <>(c \in DOMAIN tools /\ tools[c].pc \in {"returned", "thrown"}))

C12_Witness ==
    \E c \in DOMAIN tools :
        /\ tools[c].pc = "thrown"
        /\ tools[c].retries = 1
        /\ tools[c].outcomes = << "timeout", "timeout" >>
        /\ \A i \in Issued(c) : tasks[i].pc = "handler" /\ tasks[i].h.kind = "hang"

(* C13: an initialize response of the default auto-responder carries the
   capability set given to the last setCapabilities call made before the
   request was answered, and no later step (a later setCapabilities among
   them) changes the capabilities inside a response already produced. *)
AnsweredByDefault(t) ==
    /\ t.h.kind = "default"
    /\ t.ireq.method = "initialize"
    /\ t.resp.kind = "response"

C13_CapabilitiesSnapshot ==
    [][ \A i \in DOMAIN tasks :
           /\ (LooksUp(i) /\ AnsweredByDefault(tasks'[i]) /\ given # "none") =>
                  objects'[tasks'[i].resp.data] = given
           /\ AnsweredByDefault(tasks[i]) =>
                  /\ objects'[tasks'[i].resp.data] = objects[tasks[i].resp.data]
                  /\ tasks'[i].msg.kind = "response" =>
                         objects'[tasks'[i].msg.data] = objects[tasks[i].resp.data]
      ]_vars

C13_Witness ==
    \E i \in DOMAIN tasks :
        /\ AnsweredByDefault(tasks[i])
        /\ tasks[i].pc = "done"
        /\ objects[tasks[i].msg.data] = "capsA"
        /\ given = "capsB"

(* C14: validateResponse returns valid: false, with the error that says a
   response cannot have both, when result and error are both present, and
   valid: false when neither is; a response with jsonrpc "2.0", an id and
   exactly one of a result or a well-formed error object is valid. *)
Range(seq) == { seq[k] : k \in DOMAIN seq }

ResponseChecked == returned.op = "validateResponse" /\ ~NotAnObject(returned.input)

WellFormedError(e) ==
    e.t = "object" /\ e.code \in {"number", "zero"} /\ e.message \in {"string", "emptyString"}

C14_ResultXorError ==
    ResponseChecked =>
        LET m == returned.input
            r == returned.result
            hasResult == m.result # "absent"
            hasError == m.error.t # "absent"
        IN /\ (hasResult /\ hasError) =>
                 /\ ~r.valid
                 /\ "Response cannot have both result and error fields" \in Range(r.errors)
           /\ (~hasResult /\ ~hasError) => ~r.valid
           /\ ( /\ m.jsonrpc = "2.0"
                /\ m.id # "absent"
                /\ (hasResult /\ ~hasError) \/ (~hasResult /\ WellFormedError(m.error)) ) =>
                 r = [valid |-> TRUE, errors |-> << >>, warnings |-> << >>]

C14_Witness ==
    /\ ResponseChecked
    /\ returned.input.jsonrpc = "2.0"
    /\ returned.input.id = "number"
    /\ returned.input.result = "object"
    /\ WellFormedError(returned.input.error)
    /\ returned.result.errors = << "Response cannot have both result and error fields" >>

(* C15: validateRequest reports the params error whenever params is present
   with a value that is neither an object nor an array (null, a string, a
   number, a boolean), and reports no params error when params is absent, an
   object or an array. *)
RequestChecked == returned.op = "validateRequest" /\ ~NotAnObject(returned.input)

C15_ParamsChecked ==
    RequestChecked =>
        LET pa == returned.input.params
        IN ("params field must be an object or array if present"
               \in Range(returned.result.errors))
           <=> (pa \notin {"absent", "undefined", "object", "array"})

(* C16: validateResponse reports an error about the error field whenever that
   field is present and its code is not a number or its message is not a
   string, whatever the value of the field (null and non-objects too). *)
ErrorFieldErrors ==
    { "error field must be an object", "error.code must be a number",
      "error.message must be a string" }

C16_ErrorStructureChecked ==
    ResponseChecked =>
        LET e == returned.input.error
        IN ( /\ e.t \notin {"absent", "undefined"}
             /\ ~WellFormedError(e) ) =>
              /\ ~returned.result.valid
              /\ Range(returned.result.errors) \cap ErrorFieldErrors # {}

(* C17: after any series of validateRequest / validateResponse /
   validateMessage calls since construction or the last reset(), the
   accumulator holds every error and every warning those calls returned, in
   call order; hasErrors() is true exactly when one of them returned
   valid: false; reset() empties both buckets. *)
C17_AccumulatesAll ==
    /\ validationErrors = seen.errors
    /\ validationWarnings = seen.warnings
    /\ (Len(validationErrors) > 0) <=> seen.invalid
    /\ returned.op = "reset" => validationErrors = << >> /\ validationWarnings = << >>

(* C18: in strict mode a validateRequest or validateResponse call of a
   ProtocolValidator whose result carries warnings puts those warnings into
   the error bucket, so that hasErrors() is true even when the message is
   valid; the result the call returns holds no promoted warning. *)
C18_StrictPromotes ==
    ( /\ strictMode
      /\ returned.op \in {"validateRequest", "validateResponse"}
      /\ Len(returned.result.warnings) > 0 ) =>
        /\ Len(validationErrors) > 0
        /\ Range(returned.result.warnings) \subseteq Range(validationErrors)
        /\ returned.result = ( IF returned.op = "validateRequest"
                               THEN validateRequest(returned.input)
                               ELSE validateResponse(returned.input) )

(* C19: the recorder has two states, Idle and Recording: startRecording()
   throws when it is Recording, stopRecording() and recordMessage() throw when
   it is not, and a call that throws leaves the recording flag, the working
   log and the validator's accumulator as they were; the other calls do not
   throw, and move the flag as their names say. *)
RecorderUntouched == UNCHANGED << recording, messages, validationErrors, validationWarnings >>

C19_TwoStates ==
    [][ /\ (StartRecording /\ recording) => (returned'.threw /\ RecorderUntouched)
        /\ (StopRecording /\ ~recording) => (returned'.threw /\ RecorderUntouched)
        /\ \A << d, m >> \in Recorded :
              (RecordMessage(d, m) /\ ~recording) => (returned'.threw /\ RecorderUntouched)
        /\ (StartRecording /\ ~recording) => (~returned'.threw /\ recording')
        /\ (StopRecording /\ recording) => (~returned'.threw /\ ~recording')
        /\ \A << d, m >> \in Recorded :
              (RecordMessage(d, m) /\ recording) => (~returned'.threw /\ recording')
      ]_vars

C19_Witness ==
    /\ returned = Threw("recordMessage", "Not currently recording. Call startRecording() first.")
    /\ ~recording
    /\ Len(messages) = 1
    /\ Len(validationErrors) > 0

(* C20: a startRecording() that succeeds empties the working log and the
   accumulator of the embedded validator, so that a session taken after a
   second start/stop cycle holds the messages recorded in that cycle and no
   other. *)
C20_StartEmpties ==
    [][ /\ (StartRecording /\ ~recording) =>
              /\ messages' = << >>
              /\ validationErrors' = << >>
              /\ validationWarnings' = << >>
        /\ GetSession =>
              LET taken == returned'.session.messages
              IN /\ Len(taken) = Len(cycle.entries)
                 /\ \A k \in DOMAIN taken :
                       << taken[k].direction, taken[k].message >> = cycle.entries[k]
      ]_vars

C20_Witness ==
    /\ returned.op = "getSession"
    /\ ~recording
    /\ cycle.starts = 2
    /\ cycle.before
    /\ Len(returned.session.messages) = 1
    /\ << returned.session.messages[1].direction, returned.session.messages[1].message >>
          = cycle.entries[1]

(* C21: while the recorder is Recording, every recordMessage call appends
   exactly one entry, carrying the direction and the message given, whether
   or not the message passes validation; a session taken after startRecording,
   n recordMessage calls and stopRecording holds n entries in call order. *)
C21_RecordsEveryMessage ==
    [][ /\ \A << d, m >> \in Recorded :
              (RecordMessage(d, m) /\ recording) =>
                  /\ Len(messages') = Len(messages) + 1
                  /\ SubSeq(messages', 1, Len(messages)) = messages
                  /\ messages'[Len(messages')].direction = d
                  /\ messages'[Len(messages')].message = m
        /\ (GetSession /\ ~recording) =>
              /\ Len(returned'.session.messages) = Len(cycle.entries)
              /\ \A k \in 1..Len(cycle.entries) :
                    /\ returned'.session.messages[k].direction = cycle.entries[k][1]
                    /\ returned'.session.messages[k].message = cycle.entries[k][2]
      ]_vars

C21_Witness ==
    /\ returned.op = "getSession"
    /\ ~recording
    /\ Len(returned.session.messages) = 2
    /\ Len(cycle.entries) = 2
    /\ ~validateMessage(returned.session.messages[1].message).valid
    /\ validateMessage(returned.session.messages[2].message).valid

(* C22: a session a caller took with getSession is a snapshot of its own:
   the recordMessage, startRecording, stopRecording and reset calls made on
   the recorder afterwards leave the list of messages of that session as it
   was when it was taken. *)
C22_SnapshotIndependent ==
    [][ /\ \A << d, m >> \in Recorded :
              RecordMessage(d, m) => session'.messages = session.messages
        /\ StartRecording => session'.messages = session.messages
        /\ StopRecording => session'.messages = session.messages
        /\ RecorderReset => session'.messages = session.messages
        /\ GetSession => session'.messages = messages
      ]_vars

C22_Witness ==
    /\ session.taken
    /\ Len(session.messages) = 1
    /\ returned.op = "recordMessage"
    /\ ~returned.threw
    /\ Len(messages) = 2

\* the timestamps of a list of entries never decrease and are never negative
Ordered(entries) ==
    /\ \A k \in DOMAIN entries : entries[k].timestamp >= 0
    /\ \A j, k \in DOMAIN entries : j <= k => entries[j].timestamp <= entries[k].timestamp

(* C23: with a clock that never runs backwards, the entries of the working
   log and of every session taken from the recorder are in non-decreasing
   order of timestamp, and the timestamp of an entry is the time that passed
   between the most recent successful startRecording and the recordMessage
   call, which is never negative. *)
C23_TimestampsOrdered ==
    [][ /\ Ordered(messages') /\ Ordered(session'.messages)
        /\ \A << d, m >> \in TimedCalls :
              (RecordMessage(d, m) /\ recording) =>
                  /\ messages'[Len(messages')].timestamp = now - cycle.at
                  /\ now - cycle.at >= 0
      ]_vars

C23_Witness ==
    /\ session.taken
    /\ Len(session.messages) = 2
    /\ session.messages[1].timestamp = 0
    /\ session.messages[2].timestamp = 1
    /\ cycle.at = 1
    /\ now = 2

\* loadSession returned the document it was given
ReturnsUnchanged ==
    /\ ~returned.result.threw
    /\ returned.result.session = returned.input.document

(* C24 as stated: loadSession throws when the document has no metadata, has
   no messages or has messages that are not an array, and returns the parsed
   document unchanged for every other document. *)
C24_Original ==
    (returned.op = "loadSession" /\ returned.input.wellFormed) =>
        LET document == returned.input.document
        IN IF \/ document.metadata.t = "absent"
              \/ document.messages.t = "absent"
              \/ document.messages.t # "array"
           THEN returned.result.threw
           ELSE ReturnsUnchanged

(* C24: loadSession throws when the text is not JSON, when the document is
   null, when its metadata or its messages is absent or falsy (null, false,
   0, the empty string), and when its messages is not an array; it returns
   the parsed document unchanged in every other case, an empty messages array
   and a metadata that is not an object included. *)
C24_LoadSessionThrows ==
    returned.op = "loadSession" =>
        IF ~returned.input.wellFormed THEN returned.result.threw
        ELSE LET document == returned.input.document
             IN IF \/ document.shape = "null"
                   \/ document.metadata.t \in {"absent", "null", "false", "zero", "emptyString"}
                   \/ document.messages.t # "array"
                THEN returned.result.threw
                ELSE ReturnsUnchanged

C24_Witness ==
    /\ returned.op = "loadSession"
    /\ returned.input.wellFormed
    /\ returned.input.document.shape = "object"
    /\ returned.input.document.metadata.t = "string"
    /\ returned.input.document.messages = MessagesValue("array", << >>)
    /\ ReturnsUnchanged

\* what loadSession makes of the text the last exportSession returned
Reloaded == loadSession(returned.text)

\* the metadata loaded has the host name and protocol version of the recorder
SameMetadata ==
    /\ Reloaded.session.metadata.hostName = metadata.hostName
    /\ Reloaded.session.metadata.protocolVersion = metadata.protocolVersion

\* a property as it reads after the round trip: one that was undefined is absent
SurvivesAs(before, after) == after = IF before = "undefined" THEN "absent" ELSE before

(* C25 as stated: the messages of the session loaded from the text of
   exportSession equal the messages of the recorder (order, timestamps,
   directions and contents), and its metadata has the recorder's host name
   and protocol version. *)
C25_Original ==
    returned.op = "exportSession" =>
        /\ ~Reloaded.threw
        /\ Reloaded.session.messages.entries = messages
        /\ SameMetadata

(* C25: loadSession(exportSession()) does not throw; the session it returns
   has as many entries as the recorder's log, in the same order, with the same
   timestamps and directions, and each message has the same properties with
   the same values except that a property whose value was undefined is absent;
   metadata.hostName and metadata.protocolVersion equal the recorder's. *)
C25_RoundTrip ==
    returned.op = "exportSession" =>
        /\ ~Reloaded.threw
        /\ SameMetadata
        /\ Len(Reloaded.session.messages.entries) = Len(messages)
        /\ \A k \in DOMAIN messages :
              LET before == messages[k]
                  after == Reloaded.session.messages.entries[k]
              IN /\ after.timestamp = before.timestamp
                 /\ after.direction = before.direction
                 /\ after.message.jsonrpc = before.message.jsonrpc
                 /\ SurvivesAs(before.message.id, after.message.id)
                 /\ SurvivesAs(before.message.method, after.message.method)
                 /\ SurvivesAs(before.message.params, after.message.params)
                 /\ SurvivesAs(before.message.result, after.message.result)
                 /\ SurvivesAs(before.message.error.t, after.message.error.t)

C25_Witness ==
    /\ returned.op = "exportSession"
    /\ Len(messages) = 2
    /\ messages[1].message.params = "undefined"
    /\ messages[2].message.result = "object"
    /\ ~Reloaded.threw
    /\ Reloaded.session.messages.entries[1].message.params = "absent"

\* the methods of the requests in the peer's log, in log order
RECURSIVE RequestMethods(_)
RequestMethods(log) ==
    IF log = << >> THEN << >>
    ELSE IF Head(log).kind = "request"
         THEN << Head(log).method >> \o RequestMethods(Tail(log))
         ELSE RequestMethods(Tail(log))

\* the methods of the client's requests among the first n entries of a session
RECURSIVE SentMethods(_, _)
SentMethods(entries, n) ==
    IF n = 0 THEN << >>
    ELSE SentMethods(entries, n - 1) \o
         ( IF entries[n].direction = "client-to-server" THEN << entries[n].method >>
           ELSE << >> )

(* C26: replay visits the entries of the session in array order, one at a
   time and whatever their direction: the entries visited so far are 1, 2, ...
   in that order, at most one request of the replay is in flight, and the
   peer's log holds the client's requests in session order; a validation
   failure does not end the replay: it returns only after the last entry, with
   messagesPlayed the number of entries, the failures in errors, and success
   true exactly when errors is empty. *)
C26_ReplayInOrder ==
    /\ player.visited = [k \in 1..Len(player.visited) |-> k]
    /\ Len(player.visited) \in {player.index, player.index + 1}
    /\ \A i \in DOMAIN tasks :
          tasks[i].pc # "done" => (player.pc = "awaiting" /\ i = player.child)
    /\ RequestMethods(recordedMessages) = SentMethods(player.entries, Len(player.visited))
    /\ player.pc = "returned" =>
          /\ player.result.messagesPlayed = Len(player.entries)
          /\ Len(player.visited) = Len(player.entries)
          /\ player.result.errors = player.errors
          /\ player.result.success = (Len(player.result.errors) = 0)

C26_Witness ==
    /\ player.pc = "returned"
    /\ Len(player.entries) = 2
    /\ player.entries[1].direction = "client-to-server"
    /\ player.entries[2].direction = "server-to-client"
    /\ player.result.errors = << 1 >>
    /\ ~player.result.success
    /\ player.result.messagesPlayed = 2

\* sessions of one length that differ in the method of the entry at one index
\* and in nothing else
DifferInOneMethod(a, b) ==
    /\ Len(a) = Len(b)
    /\ \E k \in DOMAIN a :
          /\ a[k].method # b[k].method
          /\ [a[k] EXCEPT !.method = b[k].method] = b[k]
          /\ \A j \in DOMAIN a \ {k} : a[j] = b[j]

(* C27: compareSessions(a, a) is {identical: true, differences: []}; for
   sessions that differ only in the method of the entry at one index,
   identical is false and differences is not empty; identical is true exactly
   when differences is empty, and the comparison is by index: the sessions
   are identical exactly when they have the same length and equal entries at
   every index. *)
C27_CompareByIndex ==
    returned.op = "compareSessions" =>
        LET a == returned.input[1]
            b == returned.input[2]
            r == returned.result
        IN /\ a = b => r = [identical |-> TRUE, differences |-> << >>]
           /\ DifferInOneMethod(a, b) => (~r.identical /\ Len(r.differences) > 0)
           /\ r.identical = (Len(r.differences) = 0)
           /\ r.identical = (Len(a) = Len(b) /\ \A k \in DOMAIN a : a[k] = b[k])
           /\ \A k \in DOMAIN r.differences :
                 LET at == r.differences[k].index
                 IN at = 0 \/ at > Len(a) \/ at > Len(b) \/ a[at] # b[at]

C27_Witness ==
    /\ returned.op = "compareSessions"
    /\ Len(returned.input[1]) = 2
    /\ Len(returned.input[2]) = 2
    /\ DifferInOneMethod(returned.input[1], returned.input[2])
    /\ ~returned.result.identical
    /\ returned.result.differences = << Difference("method", 2) >>

\* `part` is `whole` with some elements left out
IsSubsequence(part, whole) ==
    \E at \in [DOMAIN part -> DOMAIN whole] :
        /\ \A j, k \in DOMAIN part : j < k => at[j] < at[k]
        /\ \A k \in DOMAIN part : whole[at[k]] = part[k]

(* C28: expectMessageSequence(interceptor, expected) returns exactly when
   expected is a subsequence, contiguous or not, of the methods of the
   requests in the log, taken in log order; it throws otherwise. *)
C28_PassesOnSubsequence ==
    returned.op = "expectMessageSequence" =>
        ( ~returned.result.threw
            <=> IsSubsequence(returned.input[2],
                              RequestMethods(returned.input[1])) )

C28_Witness ==
    /\ returned.op = "expectMessageSequence"
    /\ returned.input[1] = << Request(1, "initialize"), ResultResponse(1, "ok"),
                              Request(2, "tools/list") >>
    /\ returned.input[2] = << "initialize", "tools/list" >>
    /\ ~returned.result.threw

\* the log after the step is the log before it, or that log with one entry
\* more at its end
LogExtended ==
    \/ recordedMessages' = recordedMessages
    \/ /\ Len(recordedMessages') = Len(recordedMessages) + 1
       /\ SubSeq(recordedMessages', 1, Len(recordedMessages)) = recordedMessages

\* an interceptRequest or an interceptResponse call starts in this step
Intercepts == NewTasks # {} \/ \E i \in DOMAIN tasks : EntersInterceptResponse(i)

(* C29 as stated: no bus operation other than reset() removes an entry of the
   log or changes the order of its entries. *)
C29_Original ==
    [][ nResets' = nResets => LogExtended ]_vars

(* C29: the log is emptied by reset() (which cleanup() calls) and by
   clearRecordedMessages(), and by nothing else: every other bus operation
   leaves the entries of the log where they are, an interceptRequest or
   interceptResponse call adds exactly one entry at the end, and no entry is
   removed, moved or merged with an equal one. *)
C29_AppendOnly ==
    [][ /\ (nResets' = nResets /\ ~ClearRecordedMessages) => LogExtended
        /\ Intercepts => Len(recordedMessages') = Len(recordedMessages) + 1
        /\ ~LogExtended => recordedMessages' = << >>
      ]_vars

C29_Witness ==
    /\ nResets = 0
    /\ Len(recordedMessages) = 1
    /\ recordedMessages[1].kind = "request"
    /\ recordedMessages[1].id = 2
    /\ requestIdCounter = 2

\* the hooks of the generic handlers a call has told of its message
ToldHooks(t) == [k \in DOMAIN t.told |-> t.told[k].hook]

(* C30 as stated: interceptRequest returns the request folded through the
   request hooks and then through the generic message handlers, in order;
   interceptResponse the same for responses. *)
C30_Original ==
    \A i \in DOMAIN tasks :
        LET t == tasks[i] IN
        /\ t.pc = "lookup" => t.msg = FoldHooks(FoldHooks(t.req, t.ran), ToldHooks(t))
        /\ t.pc = "done" => t.msg = FoldHooks(FoldHooks(t.resp, t.ran), ToldHooks(t))

(* C30: interceptRequest returns the request folded through the request
   hooks in registration order; the generic message handlers are then
   invoked in registration order, one after the other, each with that same
   message, and what they return is not used.  interceptResponse is the same
   for responses. *)
C30_HandlersObserve ==
    \A i \in DOMAIN tasks :
        LET t == tasks[i] IN
        /\ \A k \in DOMAIN t.told : t.told[k].hook.reg = k
        /\ t.pc \in {"reqMsg", "lookup"} =>
              /\ t.msg = FoldHooks(t.req, t.ran)
              /\ \A k \in DOMAIN t.told : t.told[k].given = FoldHooks(t.req, t.ran)
        /\ t.pc \in {"respMsg", "done"} =>
              /\ t.msg = FoldHooks(t.resp, t.ran)
              /\ \A k \in DOMAIN t.told : t.told[k].given = FoldHooks(t.resp, t.ran)

C30_Witness ==
    \E i \in DOMAIN tasks :
        /\ tasks[i].pc = "lookup"
        /\ Len(tasks[i].ran) = 1
        /\ Len(tasks[i].told) = 1
        /\ tasks[i].told[1].hook.kind = "tag"
        /\ tasks[i].msg.trail = << 1 >>
        /\ tasks[i].told[1].given = tasks[i].msg

----------------------------------------------------------------------------
(* Calls in flight at once *)

\* call i is suspended in a request hook or a response hook
InHook(t) == t.pc \in {"reqHook", "respHook"}

\* the response of call i has been given to interceptResponse
Answered(t) == t.resp.kind = "response" /\ t.pc # "handler"

\* the mock of call i is a handler the test suite registered, one that answers
CustomMock(t) == t.h.kind \in {"ok", "err"}

(* C31 as stated: no hook invocation starts while another hook invocation of
   the same bus has started and not yet completed, also when several
   sendRequest calls are in flight at once. *)
C31_Original ==
    Cardinality({i \in DOMAIN tasks : InHook(tasks[i])}) <= 1

(* C31: in one interceptRequest or interceptResponse call the hooks run one
   at a time: a hook is invoked only when every hook before it in the array
   has completed, so a call has exactly one hook invocation in progress while
   it is suspended in its loop, after every step of the bus.  The loops of
   several sendRequest calls in flight at once are independent of each
   other. *)
C31_OneAtATimePerCall ==
    [][ \A i \in DOMAIN tasks' :
          LET t == tasks'[i] IN
          /\ InHook(t) => t.idx \in DOMAIN t.arr /\ Len(t.ran) = t.idx - 1
          /\ t.pc \in {"reqMsg", "respMsg"} =>
                t.idx \in DOMAIN t.arr /\ Len(t.told) = t.idx - 1
      ]_vars

C31_Witness ==
    /\ Len(tasks) = 2
    /\ tasks[1].pc = "reqHook" /\ tasks[1].idx = 1
    /\ tasks[2].pc = "reqHook" /\ tasks[2].idx = 1
    /\ Len(requestInterceptors) = 1

(* C32 as stated: when two sendRequest calls are in flight at once, the
   response to the earlier request is logged before the response to the
   later request, whatever the order in which their mock handlers resolve. *)
C32_Original ==
    \A i, j \in DOMAIN tasks :
        ( /\ i < j
          /\ tasks[i].gen = tasks[j].gen
          /\ CustomMock(tasks[i]) /\ CustomMock(tasks[j])
          /\ Answered(tasks[j]) ) => Answered(tasks[i])

(* C32: the requests of sendRequest calls are logged in the order the calls
   were made, each at its call; the response of a call is logged at the step
   in which its mock handler resolves, at the end of the log: the responses
   of two calls in flight at once are logged in the order their handlers
   resolve, which can be the reverse of the order of the calls. *)
C32_LoggedWhenResolved ==
    [][ /\ \A n \in NewTasks :
              /\ recordedMessages' = Append(recordedMessages, tasks'[n].req)
              /\ \A p \in DOMAIN recordedMessages :
                    recordedMessages[p].kind = "request" =>
                       recordedMessages[p].id < tasks'[n].req.id
        /\ \A i \in DOMAIN tasks :
              (tasks[i].pc = "handler" /\ tasks'[i].pc # "handler") =>
                 /\ Answered(tasks'[i])
                 /\ recordedMessages' = Append(recordedMessages, tasks[i].resp)
      ]_vars

C32_Witness ==
    /\ Len(tasks) = 2
    /\ tasks[1].h.kind = "ok" /\ tasks[2].h.kind = "ok"
    /\ Len(recordedMessages) = 4
    /\ recordedMessages[1] = tasks[1].req
    /\ recordedMessages[2] = tasks[2].req
    /\ recordedMessages[3] = tasks[2].resp
    /\ recordedMessages[4] = tasks[1].resp

\* call i was answered by the default initialize auto-responder
DefaultInitialize(t) == t.h.kind = "default" /\ t.ireq.method = "initialize"

(* C33: the peer is Initialized from the moment the default initialize
   auto-responder produces its answer, before that response passes through
   the response hooks: while the call is in its response hooks, and when a
   response hook has rejected and sendRequest with it, isInitialized() is
   true (until a cleanup()). *)
C33_InitializedOnAnswer ==
    [][ \A i \in DOMAIN tasks :
          /\ (LooksUp(i) /\ DefaultInitialize(tasks'[i])) => initialized'
          /\ (DefaultInitialize(tasks'[i]) /\ tasks'[i].gen = nCleanups') => initialized'
      ]_vars

C33_Witness ==
    \E i \in DOMAIN tasks :
        /\ DefaultInitialize(tasks[i])
        /\ tasks[i].pc = "rejected"
        /\ tasks[i].resp.kind = "response"
        /\ initialized

\* no mock was registered since the last reset of the bus
NoMockSince == \A m \in Methods : latest[m] = 0

(* C34: after cleanup(), and until a mock is registered again, the bus holds
   no mock registration, the default auto-responders included: the mock
   lookup of every sendRequest (of initialize, ping, tools/list,
   resources/list and prompts/list too) finds nothing, the -32601 response is
   synthesized and logged, and isInitialized() stays false. *)
C34_CleanupRemovesDefaults ==
    [][ (nCleanups' > 0 /\ NoMockSince') =>
          /\ \A m \in Methods : requestMocks'[m] = NoHandler
          /\ ~initialized'
          /\ \A i \in DOMAIN tasks :
                (LooksUp(i) /\ nCleanups > 0 /\ NoMockSince) =>
                   /\ tasks'[i].h = NoHandler
                   /\ tasks'[i].resp =
                         ErrorResponse(tasks[i].msg.id, MethodNotFound,
                                       "Method not found: " \o tasks[i].method)
                   /\ recordedMessages' = Append(recordedMessages, tasks'[i].resp)
      ]_vars

C34_Witness ==
    \E i \in DOMAIN tasks :
        /\ config.autoRespond
        /\ nCleanups = 1
        /\ NoMockSince
        /\ tasks[i].gen = 1
        /\ tasks[i].method = "initialize"
        /\ tasks[i].pc = "done"
        /\ tasks[i].msg.code = MethodNotFound
        /\ ~initialized

(* C35: a sendRequest call has its id from the step in which it is made,
   before its first suspension: calls started without awaiting one another
   have distinct ids, increasing in the order the calls were started,
   whatever order they complete in (ids start again after cleanup()). *)
C35_IdsAtCallStart ==
    [][ /\ \A n \in NewTasks :
              /\ tasks'[n].req.kind = "request" /\ tasks'[n].req.id >= 1
              /\ \A i \in DOMAIN tasks :
                    tasks[i].gen = tasks'[n].gen => tasks[i].req.id < tasks'[n].req.id
        /\ \A i \in DOMAIN tasks : tasks'[i].req = tasks[i].req
      ]_vars

C35_Witness ==
    /\ Len(tasks) = 2
    /\ tasks[1].pc = "reqHook" /\ tasks[1].req.id = 1
    /\ tasks[2].pc = "done" /\ tasks[2].req.id = 2

\* the hook call i was waiting for settles in this step
HookSettles(i) ==
    /\ InHook(tasks[i])
    /\ tasks'[i].pc # tasks[i].pc \/ tasks'[i].idx # tasks[i].idx

(* C36: when a request hook rejects, sendRequest rejects at that step: the
   request is in the log since the call was made, only the hooks before the
   failing one have run, no mock handler is looked up or invoked, nothing is
   logged, and the call takes no further step, so no response is ever logged
   for it; the id counter is not taken back, and a later request has a larger
   id (until cleanup()). *)
C36_RequestHookRejects ==
    [][ /\ \A i \in DOMAIN tasks :
              LET t == tasks[i] IN
              /\ (t.pc = "reqHook" /\ HookSettles(i) /\ t.arr[t.idx].kind = "reject") =>
                    /\ tasks'[i].pc = "rejected"
                    /\ tasks'[i].ran = SubSeq(t.arr, 1, t.idx - 1)
                    /\ tasks'[i].h = NoHandler
                    /\ tasks'[i].ireq = NoMessage
                    /\ tasks'[i].resp = NoMessage
                    /\ recordedMessages' = recordedMessages
                    /\ requestIdCounter' = requestIdCounter
              /\ t.pc = "rejected" => tasks'[i] = t
        /\ \A n \in NewTasks :
              /\ recordedMessages' = Append(recordedMessages, tasks'[n].req)
              /\ \A i \in DOMAIN tasks :
                    tasks[i].gen = tasks'[n].gen => tasks[i].req.id < tasks'[n].req.id
      ]_vars

C36_Witness ==
    /\ Len(requestInterceptors) = 2
    /\ requestInterceptors[1].kind = "reject"
    /\ requestInterceptors[2].kind = "tag"
    /\ Len(tasks) = 1
    /\ tasks[1].pc = "rejected"
    /\ tasks[1].ran = << >>
    /\ tasks[1].h = NoHandler
    /\ recordedMessages = << tasks[1].req >>
    /\ requestIdCounter = 1

(* C37: reset() and cleanup() do not abort the sendRequest calls in flight:
   each stays where it is suspended and keeps the hook array it was
   iterating, so the remaining hooks of that array still run.  When such a
   call reaches its mock lookup and no mock was registered since, it finds
   nothing, and the -32601 response is synthesized and appended to the log as
   it is then: the log can hold a response whose request it does not hold. *)
C37_ResetDoesNotAbort ==
    [][ /\ nResets' # nResets =>
              \A i \in DOMAIN tasks : tasks'[i] = [tasks[i] EXCEPT !.live = FALSE]
        /\ \A i \in DOMAIN tasks :
              (LooksUp(i) /\ tasks[i].ep < nResets /\ NoMockSince) =>
                 /\ tasks'[i].h = NoHandler
                 /\ tasks'[i].resp =
                       ErrorResponse(tasks[i].msg.id, MethodNotFound,
                                     "Method not found: " \o tasks[i].method)
                 /\ recordedMessages' = Append(recordedMessages, tasks'[i].resp)
      ]_vars

C37_Witness ==
    /\ config.autoRespond
    /\ nResets = 1
    /\ requestInterceptors = << >>
    /\ Len(tasks) = 1
    /\ tasks[1].method = "initialize"
    /\ tasks[1].ireq.trail = << 1 >>
    /\ tasks[1].pc = "done"
    /\ tasks[1].resp.code = MethodNotFound
    /\ recordedMessages = << tasks[1].resp >>

(* C38: the mock lookup uses the method of the request as the request hooks
   returned it: the handler registered for that method answers, given that
   request; when there is none, the synthesized error has the id of that
   request and its message names the method passed to sendRequest. *)
C38_LookupAfterHooks ==
    [][ \A i \in DOMAIN tasks :
          LooksUp(i) =>
             LET post == tasks[i].msg
                 h == requestMocks[post.method]
             IN /\ tasks'[i].ireq = post
                /\ tasks'[i].h = h
                /\ h.kind # "none" =>
                      tasks'[i].resp = HandlerResponse(h, post, capabilities)
                /\ h.kind = "none" =>
                      tasks'[i].resp =
                         ErrorResponse(post.id, MethodNotFound,
                                       "Method not found: " \o tasks[i].method)
      ]_vars

C38_Witness ==
    \E i \in DOMAIN tasks :
        /\ tasks[i].method = "unknown/method"
        /\ tasks[i].ireq.method = "tools/list"
        /\ tasks[i].h.kind = "default"
        /\ tasks[i].resp.ok
        /\ tasks[i].resp.id = tasks[i].req.id + 10
        /\ tasks[i].resp.data = "tools: []"

\* call i is an attempt its callTool no longer waits for
Abandoned(i) ==
    /\ tasks[i].owner > 0
    /\ tools[tasks[i].owner].child # i \/ tools[tasks[i].owner].pc # "racing"

\* callTool c sees its timer win the race in this step
TimesOut(c) ==
    /\ tools[c].pc = "racing"
    /\ Len(tools'[c].outcomes) = Len(tools[c].outcomes) + 1
    /\ tools'[c].outcomes[Len(tools'[c].outcomes)] = "timeout"

(* C39: a callTool attempt that times out leaves its sendRequest in flight,
   where it was suspended; when the mock handler of such a request resolves,
   its response is appended to the log as for any other call, after whatever
   was logged meanwhile (the requests of later attempts included) and also
   when callTool has returned or thrown. *)
C39_TimeoutDoesNotCancel ==
    [][ /\ \A c \in DOMAIN tools : TimesOut(c) => tasks' = tasks
        /\ \A i \in DOMAIN tasks :
              (Abandoned(i) /\ tasks[i].pc = "handler" /\ tasks'[i] # tasks[i]) =>
                 /\ Answered(tasks'[i])
                 /\ recordedMessages' = Append(recordedMessages, tasks[i].resp)
      ]_vars

C39_Witness ==
    /\ Len(tools) = 1
    /\ tools[1].pc = "returned"
    /\ tools[1].outcomes = << "timeout", "ok" >>
    /\ Len(recordedMessages) = 4
    /\ recordedMessages[2] = tasks[2].req
    /\ recordedMessages[3] = tasks[2].resp
    /\ recordedMessages[4] = tasks[1].resp

\* request, response, request, response, ... with ids 1, 1, 2, 2, ...
Alternating(log) ==
    \A k \in DOMAIN log :
        IF k % 2 = 1
        THEN log[k].kind = "request" /\ log[k].id = (k + 1) \div 2
        ELSE log[k].kind = "response" /\ log[k].id = k \div 2

\* call i was answered by a default auto-responder or by the not-found path,
\* and its request hooks left its id alone
PlainExchange(t) == t.h.kind \in {"none", "default"} /\ t.ireq.id = t.req.id

\* every call made so far was awaited before the next, and the log holds them all
SequentialSoFar ==
    /\ \A i \in DOMAIN tasks : tasks[i].pc = "done"
    /\ Len(recordedMessages) = 2 * Len(tasks)
    /\ Alternating(recordedMessages)

\* the last call is the only one in flight, and the log holds its request
LastInFlight ==
    /\ tasks # << >>
    /\ \A i \in DOMAIN tasks : i < Len(tasks) => tasks[i].pc = "done"
    /\ Len(recordedMessages) = 2 * Len(tasks) - 1
    /\ Alternating(recordedMessages)

(* C40: with only the default auto-responders or the synthesized not-found
   response, and request hooks that leave the id alone, the response a
   sendRequest call returns has the id of its request; and when each call is
   awaited before the next is made, the log stays an alternation request,
   response, request, response, ... with ids 1, 1, 2, 2, ...: a call made
   after such a log adds its request, and its answer adds its response. *)
C40_IdsEchoed ==
    [][ /\ \A i \in DOMAIN tasks :
              (Returns(i) /\ PlainExchange(tasks'[i])) =>
                 tasks'[i].msg.id = tasks'[i].req.id
        /\ (NewTasks # {} /\ SequentialSoFar) => LastInFlight'
        /\ ( /\ tasks # << >>
             /\ EntersInterceptResponse(Len(tasks))
             /\ PlainExchange(tasks'[Len(tasks)])
             /\ LastInFlight ) =>
                 /\ Alternating(recordedMessages')
                 /\ Len(recordedMessages') = 2 * Len(tasks)
      ]_vars

C40_Witness ==
    /\ Len(tasks) = 2
    /\ SequentialSoFar
    /\ tasks[1].h.kind = "default"
    /\ tasks[2].h.kind = "none"
    /\ Len(responseInterceptors) = 1
    /\ tasks[2].msg.id = 2

====
